---- MODULE Spec2Model ----
(***************************************************************************)
(* A model of the label-to-position indexing engine of static_frame:       *)
(* Index / IndexGO (static_frame/core/index.py) and IndexHierarchy /       *)
(* IndexHierarchyGO (static_frame/core/index_hierarchy.py).                *)
(*                                                                         *)
(* Labels are integers.  A value below StrBase stands for a Python int of  *)
(* the same value; a value from StrBase up stands for a str label          *)
(* (StrBase is 'a', StrBase + 1 is 'b', ...), so that isinstance(value,    *)
(* INT_TYPES) is the test value < StrBase.                                 *)
(***************************************************************************)
EXTENDS Integers, Sequences, FiniteSets, TLC

VARIABLES
    pc,         \* "new" before the constructor ran, "ready" after it returned, "failed" after it raised
    index,      \* the Index / IndexGO object under test (its slots)
    result,     \* what the last call returned or raised
    history,    \* ghost: the labels given at construction (init) and those appended since (appended)
    levels,     \* the argument of IndexHierarchy.from_product
    product,    \* what from_product returned or raised
    ih,         \* the IndexHierarchyGO object under test (its slots)
    ih_result,  \* what the last call on ih returned or raised
    ih_rows,    \* ghost: the rows given at construction followed by those appended since
    twin        \* a second index made from the one under test, and the objects the two share

vars == <<pc, index, result, history, levels, product, ih, ih_result, ih_rows, twin>>

-----------------------------------------------------------------------------
\* Bounds of the model.

StrBase == 100
MaxIntLabel == 2
MaxStrLabel == 1
MaxInitLen == 2
MaxLen == 3
MaxDup == 11
MaxLevelLabel == 1
MaxLevelLen == 2
MaxDepth == 3
MaxHLabel == 1
MaxHInit == 2
MaxHRows == 3

Labels == (0..MaxIntLabel) \cup {StrBase + i : i \in 0..MaxStrLabel}

-----------------------------------------------------------------------------
\* Sequences.

Range(s) == {s[i] : i \in DOMAIN s}

IsUnique(s) == \A i, j \in DOMAIN s : s[i] = s[j] => i = j

Min(a, b) == IF a < b THEN a ELSE b

\* A call by value: the argument is evaluated once, before the body that uses it.
Let(value, body(_)) == CHOOSE r \in {body(v) : v \in {value}} : TRUE

\* 0-based position of the first occurrence of x in s.
FirstPos(s, x) == (CHOOSE i \in DOMAIN s : s[i] = x /\ \A j \in 1..(i - 1) : s[j] # x) - 1

RemoveAt(s, i) == SubSeq(s, 1, i - 1) \o SubSeq(s, i + 1, Len(s))

SeqsUpTo(S, n) == UNION {[1..k -> S] : k \in 0..n}

\* <<0, 0, 1, 1, ..., n-1, n-1>>: n labels, each given twice.
Doubled(n) == [i \in 1..(2 * n) |-> (i - 1) \div 2]

\* numpy indexing a[key] of a 1D array with one integer: None when it raises IndexError.
ArrayGetitem(a, key) ==
    IF key >= 0 /\ key < Len(a) THEN [exc |-> "None", val |-> a[key + 1]]
    ELSE IF key < 0 /\ key >= -Len(a) THEN [exc |-> "None", val |-> a[Len(a) + key + 1]]
    ELSE [exc |-> "IndexError", val |-> 0]

IsInt(value) == value < StrBase

PositionsAllocator_get(size) == [i \in 1..size |-> i - 1]

-----------------------------------------------------------------------------
\* automap.AutoMap / FrozenAutoMap: an insertion-ordered map from label to position.

NoMap == [none |-> TRUE, keys |-> <<>>]

AutoMap(keys) == [none |-> FALSE, keys |-> keys]

AutoMap_raises(keys) == ~IsUnique(keys)

AutoMap_contains(m, value) == value \in Range(m.keys)

AutoMap_getitem(m, value) == FirstPos(m.keys, value)

AutoMap_add(m, value) == [m EXCEPT !.keys = Append(@, value)]

-----------------------------------------------------------------------------
\* collections.Counter(labels).most_common(n) as Index._error_init_index_non_unique uses it.

CountOf(s, x) == Cardinality({i \in DOMAIN s : s[i] = x})

RECURSIVE Distinct(_)
Distinct(s) ==
    IF s = <<>> THEN <<>>
    ELSE LET front == Distinct(SubSeq(s, 1, Len(s) - 1))
             last == s[Len(s)]
         IN IF last \in Range(front) THEN front ELSE Append(front, last)

RECURSIVE SortByCount(_, _)
SortByCount(keys, s) ==
    IF keys = <<>> THEN <<>>
    ELSE LET best == CHOOSE i \in DOMAIN keys : \A j \in DOMAIN keys :
                        \/ CountOf(s, keys[j]) < CountOf(s, keys[i])
                        \/ CountOf(s, keys[j]) = CountOf(s, keys[i]) /\ i <= j
         IN <<keys[best]>> \o SortByCount(RemoveAt(keys, best), s)

MostCommonN == 10

most_common(s, n) ==
    LET sorted == SortByCount(Distinct(s), s)
    IN SubSeq(sorted, 1, Min(n, Len(sorted)))

\* A variant that reports the number of labels as the count.
MutErrorCountsAll(labels, consumed) ==
    IF consumed
    THEN [details |-> FALSE, count |-> 0, examples |-> <<>>]
    ELSE LET Duplicated(x) == CountOf(labels, x) > 1
         IN [details |-> TRUE,
             count |-> Len(labels),
             examples |-> SelectSeq(most_common(labels, MostCommonN), Duplicated)]

\* Index._error_init_index_non_unique: the count and the examples its message names.
\* consumed: labels was a generator, which the AutoMap constructor exhausted.
_error_init_index_non_unique(labels, consumed) ==
    IF consumed
    THEN [details |-> FALSE, count |-> 0, examples |-> <<>>]
    ELSE LET Duplicated(x) == CountOf(labels, x) > 1
         IN [details |-> TRUE,
             count |-> Len(labels) - Len(Distinct(labels)),
             examples |-> SelectSeq(most_common(labels, MostCommonN), Duplicated)]

-----------------------------------------------------------------------------
\* Index and IndexGO.  An object is the record of its slots; STATIC tells the class.

NullIndex ==
    [STATIC |-> TRUE, _map |-> NoMap, _labels |-> <<>>, _positions |-> <<>>,
     _recache |-> FALSE, _labels_mutable |-> <<>>, _positions_mutable_count |-> 0]

\* A variant that builds the map over the labels in reverse order.
MutInitMapReversed(labels, loc_is_iloc, static, generator) ==
    IF ~loc_is_iloc /\ AutoMap_raises(labels)
    THEN [exc |-> "ErrorInitIndexNonUnique",
          msg |-> _error_init_index_non_unique(labels, generator),
          obj |-> NullIndex]
    ELSE [exc |-> "None",
          msg |-> <<>>,
          obj |-> [STATIC |-> static,
                   _map |-> IF loc_is_iloc THEN NoMap
                            ELSE AutoMap([i \in DOMAIN labels |-> labels[Len(labels) + 1 - i]]),
                   _labels |-> labels,
                   _positions |-> PositionsAllocator_get(Len(labels)),
                   _recache |-> FALSE,
                   _labels_mutable |-> IF static THEN <<>> ELSE labels,
                   _positions_mutable_count |-> IF static THEN 0 ELSE Len(labels)]]

\* Index.__init__ with labels a list or a generator of labels (not an array, not an index).
\* The dtype of the labels is not modelled.
Index__init__(labels, loc_is_iloc, static, generator) ==
    IF ~loc_is_iloc /\ AutoMap_raises(labels)
    THEN [exc |-> "ErrorInitIndexNonUnique",
          msg |-> _error_init_index_non_unique(labels, generator),
          obj |-> NullIndex]
    ELSE [exc |-> "None",
          msg |-> <<>>,
          obj |-> [STATIC |-> static,
                   _map |-> IF loc_is_iloc THEN NoMap ELSE AutoMap(labels),
                   _labels |-> labels,
                   _positions |-> PositionsAllocator_get(Len(labels)),
                   _recache |-> FALSE,
                   _labels_mutable |-> IF static THEN <<>> ELSE labels,
                   _positions_mutable_count |-> IF static THEN 0 ELSE Len(labels)]]

\* _IndexGOMixin._update_array_cache; Index._update_array_cache does nothing.
IndexGO_update_array_cache(self) ==
    IF self.STATIC THEN self
    ELSE [self EXCEPT !._labels = self._labels_mutable,
                      !._positions = PositionsAllocator_get(self._positions_mutable_count),
                      !._recache = FALSE]

\* "if self._recache: self._update_array_cache()"
Recached(self) == IF self._recache THEN IndexGO_update_array_cache(self) ELSE self

\* Index.__len__
Index__len__(self) == [obj |-> Recached(self), val |-> Len(Recached(self)._labels)]

\* Index.__contains__: with no map, an int is tested against len(self), which recaches.
Index__contains__(self, value) ==
    IF self._map.none
    THEN IF IsInt(value)
         THEN IF value >= 0
              THEN [obj |-> Recached(self), val |-> value < Index__len__(self).val]
              ELSE [obj |-> self, val |-> FALSE]
         ELSE [obj |-> self, val |-> FALSE]
    ELSE [obj |-> self, val |-> AutoMap_contains(self._map, value)]

\* A variant that stores the label before it tests for a duplicate.
MutAppendStoresFirst(self, value) ==
    LET c == Index__contains__(self, value)
    IN IF c.val
       THEN [exc |-> "KeyError",
             obj |-> [c.obj EXCEPT !._labels_mutable = Append(@, value)]]
       ELSE [exc |-> "None",
             obj |-> [c.obj EXCEPT !._map = IF @.none THEN @ ELSE AutoMap_add(@, value),
                                   !._labels_mutable = Append(@, value),
                                   !._positions_mutable_count = @ + 1,
                                   !._recache = TRUE]]

\* A variant that builds the map at every append to an index that has none.
MutAppendAlwaysBuildsMap(self, value) ==
    LET c == Index__contains__(self, value)
        labels_mutable == Append(c.obj._labels_mutable, value)
    IN IF c.val
       THEN [exc |-> "KeyError", obj |-> c.obj]
       ELSE [exc |-> "None",
             obj |-> [c.obj EXCEPT
                        !._map = IF @.none THEN AutoMap(labels_mutable)
                                 ELSE AutoMap_add(@, value),
                        !._labels_mutable = labels_mutable,
                        !._positions_mutable_count = @ + 1,
                        !._recache = TRUE]]

\* _IndexGOMixin.append
IndexGO_append(self, value) ==
    LET c == Index__contains__(self, value)
        initialize_map == c.obj._map.none
                          /\ ~(IsInt(value) /\ value = c.obj._positions_mutable_count)
        labels_mutable == Append(c.obj._labels_mutable, value)
    IN IF c.val
       THEN [exc |-> "KeyError", obj |-> c.obj]
       ELSE [exc |-> "None",
             obj |-> [c.obj EXCEPT
                        !._map = IF @.none
                                 THEN IF initialize_map THEN AutoMap(labels_mutable) ELSE @
                                 ELSE AutoMap_add(@, value),
                        !._labels_mutable = labels_mutable,
                        !._positions_mutable_count = @ + 1,
                        !._recache = TRUE]]

\* LocMap.loc_to_iloc for a single label: the position the map holds, or KeyError.
LocMap_loc_to_iloc(label_to_pos, key) ==
    IF AutoMap_contains(label_to_pos, key)
    THEN [exc |-> "None", val |-> AutoMap_getitem(label_to_pos, key)]
    ELSE [exc |-> "KeyError", val |-> key]

\* Index._loc_to_iloc with a single label as key.
Index_loc_to_iloc_private(self, key) ==
    IF self._map.none
    THEN [exc |-> "None", val |-> key, obj |-> self]
    ELSE LET r == LocMap_loc_to_iloc(self._map, key)
         IN [exc |-> r.exc, val |-> r.val, obj |-> Recached(self)]

\* Index.loc_to_iloc with a single label as key.
Index_loc_to_iloc(self, key) ==
    IF self._map.none
    THEN IF IsInt(key) /\ ArrayGetitem(self._positions, key).exc = "None"
         THEN [exc |-> "None", val |-> key, obj |-> self]
         ELSE [exc |-> "KeyError", val |-> key, obj |-> self]
    ELSE Index_loc_to_iloc_private(self, key)

\* Index.values, Index.positions, Index.__iter__
Index_values(self) == [exc |-> "None", val |-> Recached(self)._labels, obj |-> Recached(self)]

Index_positions(self) == [exc |-> "None", val |-> Recached(self)._positions, obj |-> Recached(self)]

Index__iter__(self) == [exc |-> "None", val |-> Recached(self)._labels, obj |-> Recached(self)]

\* Index._iter_label, which iter_label calls: the cached array as it stands.
Index_iter_label(self) == [exc |-> "None", val |-> self._labels, obj |-> self]

\* Index._extract_iloc with a single integer as key.
Index_extract_iloc(self, key) ==
    LET r == ArrayGetitem(Recached(self)._labels, key)
    IN [exc |-> r.exc, val |-> r.val, obj |-> Recached(self)]

-----------------------------------------------------------------------------
\* numpy helpers of index_hierarchy.py.

RECURSIVE Prod(_)
Prod(s) == IF s = <<>> THEN 1 ELSE s[1] * Prod(Tail(s))

Reverse(s) == [i \in DOMAIN s |-> s[Len(s) + 1 - i]]

\* np.cumprod
CumProd(s) == [i \in DOMAIN s |-> Prod(SubSeq(s, 1, i))]

\* np.tile(a, reps) of a 1D array
RECURSIVE Tile(_, _)
Tile(a, reps) == IF reps <= 0 THEN <<>> ELSE a \o Tile(a, reps - 1)

\* np.hstack of a tuple of 1D arrays, which raises ValueError when the tuple is empty.
RECURSIVE Flatten(_)
Flatten(parts) == IF parts = <<>> THEN <<>> ELSE parts[1] \o Flatten(Tail(parts))

Hstack(parts) ==
    IF parts = <<>> THEN [exc |-> "ValueError", val |-> <<>>]
    ELSE [exc |-> "None", val |-> Flatten(parts)]

\* The first exception, in order, of a sequence of outcomes; "None" when none raised.
FirstExc(outcomes) ==
    IF \A i \in DOMAIN outcomes : outcomes[i].exc = "None" THEN "None"
    ELSE outcomes[CHOOSE i \in DOMAIN outcomes :
                     /\ outcomes[i].exc # "None"
                     /\ \A j \in 1..(i - 1) : outcomes[j].exc = "None"].exc

\* build_indexers_from_product
build_indexers_from_product(list_lengths) ==
    LET padded_lengths == <<1>> \o list_lengths \o <<1>>
        m == Len(padded_lengths)
        all_group_reps == SubSeq(CumProd(padded_lengths), 1, m - 2)
        rev == CumProd(Reverse(padded_lengths))
        all_index_reps == [i \in 1..(m - 2) |-> rev[m - 1 - i]]
        group(i) == Hstack([j \in 1..padded_lengths[i + 1] |-> Tile(<<j - 1>>, all_index_reps[i])])
        outcomes == [i \in 1..(m - 2) |->
                        IF group(i).exc # "None" THEN group(i)
                        ELSE [exc |-> "None", val |-> Tile(group(i).val, all_group_reps[i])]]
    IN [exc |-> FirstExc(outcomes), val |-> [i \in 1..(m - 2) |-> outcomes[i].val]]

-----------------------------------------------------------------------------
\* IndexHierarchy and IndexHierarchyGO.  An object is the record of its slots; _blocks
\* is the TypeBlocks as its sequence of columns, one per depth.

NoPending == [none |-> TRUE, items |-> <<>>]

\* indexers_class is the class of the object _indexers is bound to: the constructor binds
\* the object it is given, a list everywhere but in Index.level_add.
NullIH ==
    [STATIC |-> TRUE, _indices |-> <<>>, _indexers |-> <<>>, _blocks |-> <<>>,
     _recache |-> FALSE, _pending_extensions |-> NoPending, indexers_class |-> "list"]

\* Index.__init__ with labels another Index: the copy shares or rebuilds the map.
Index_from_index(labels, static) ==
    LET src == Recached(labels)
    IN [STATIC |-> static,
        _map |-> src._map,
        _labels |-> src._labels,
        _positions |-> src._positions,
        _recache |-> FALSE,
        _labels_mutable |-> IF static THEN <<>> ELSE src._labels,
        _positions_mutable_count |-> IF static THEN 0 ELSE Len(src._labels)]

\* mutable_immutable_index_filter
mutable_immutable_index_filter(target_static, i) ==
    IF target_static
    THEN IF i.STATIC THEN i ELSE Index_from_index(i, TRUE)
    ELSE Index_from_index(i, FALSE)

\* TypeBlocks.__len__: the number of rows.
Blocks__len__(blocks) == IF blocks = <<>> THEN 0 ELSE Len(blocks[1])

\* TypeBlocks.values: the rows of the 2D array.
Blocks_values(blocks) ==
    [p \in 1..Blocks__len__(blocks) |-> [d \in DOMAIN blocks |-> blocks[d][p]]]

\* IndexHierarchy._create_blocks_from_self: index.values[indexer] for each depth.
\* indices are the sub-indices after index.values has recached them.
IH_create_blocks_from_self(indices, indexers) ==
    [d \in DOMAIN indices |->
        [p \in DOMAIN indexers[d] |-> ArrayGetitem(indices[d]._labels, indexers[d][p]).val]]

\* index.values[indexer] raises IndexError when a cell of an indexer lies outside the
\* sub-index of its depth.
IH_create_blocks_raises(indices, indexers) ==
    \E d \in DOMAIN indices : \E p \in DOMAIN indexers[d] :
        ArrayGetitem(indices[d]._labels, indexers[d][p]).exc # "None"

\* The rows of np.array(indexers).T
IndexerRows(indexers) ==
    IF indexers = <<>> THEN <<>>
    ELSE [p \in DOMAIN indexers[1] |-> [d \in DOMAIN indexers |-> indexers[d][p]]]

\* array_to_duplicated(exclude_first=True): row p repeats an earlier row.
IsDuplicate(rows, p) == \E q \in 1..(p - 1) : rows[q] = rows[p]

\* A variant that takes two rows for too few to hold a duplicate.
MutUniquenessSkipsPairs(indexers, values) ==
    LET expected_len == Len(values)
        rows == IndexerRows(indexers)
        duplicates == {p \in DOMAIN rows : IsDuplicate(rows, p)}
    IN IF expected_len <= 2 THEN [exc |-> "None", count |-> 0, first |-> <<>>]
       ELSE IF Cardinality(Range(rows)) # expected_len
            THEN [exc |-> "ErrorInitIndexNonUnique",
                  count |-> Cardinality(duplicates),
                  first |-> IF duplicates = {} THEN values[1]
                            ELSE values[CHOOSE p \in duplicates : \A q \in duplicates : p <= q]]
            ELSE [exc |-> "None", count |-> 0, first |-> <<>>]

\* IndexHierarchy._ensure_uniqueness
IH_ensure_uniqueness(indexers, values) ==
    LET expected_len == Len(values)
        rows == IndexerRows(indexers)
        duplicates == {p \in DOMAIN rows : IsDuplicate(rows, p)}
    IN IF expected_len <= 1 THEN [exc |-> "None", count |-> 0, first |-> <<>>]
       ELSE IF Cardinality(Range(rows)) # expected_len
            THEN [exc |-> "ErrorInitIndexNonUnique",
                  count |-> Cardinality(duplicates),
                  first |-> IF duplicates = {} THEN values[1]
                            ELSE values[CHOOSE p \in duplicates : \A q \in duplicates : p <= q]]
            ELSE [exc |-> "None", count |-> 0, first |-> <<>>]

\* IndexHierarchy.__init__ with a list of indices and read-only integer indexers;
\* own_blocks tells that blocks were given (blocks=..., own_blocks=True).
IH__init__(indices, indexers, static, blocks, own_blocks) ==
    IF Len(indices) <= 1
    THEN [exc |-> "ErrorInitIndex", msg |-> <<>>, obj |-> NullIH]
    ELSE LET own == [d \in DOMAIN indices |-> mutable_immutable_index_filter(static, indices[d])]
             _blocks == IF own_blocks THEN blocks ELSE IH_create_blocks_from_self(own, indexers)
             unique == IH_ensure_uniqueness(indexers, Blocks_values(_blocks))
         IN IF ~own_blocks /\ IH_create_blocks_raises(own, indexers)
            THEN [exc |-> "IndexError", msg |-> <<>>, obj |-> NullIH]
            ELSE IF unique.exc # "None"
            THEN [exc |-> unique.exc, msg |-> unique, obj |-> NullIH]
            ELSE [exc |-> "None", msg |-> <<>>,
                  obj |-> [STATIC |-> static, _indices |-> own, _indexers |-> indexers,
                           _blocks |-> _blocks, _recache |-> FALSE,
                           _pending_extensions |-> NoPending,
                           indexers_class |-> "list"]]

\* IndexHierarchy.from_product, each level a list of labels.
IH_from_product(lvls, static) ==
    IF Len(lvls) = 1
    THEN [exc |-> "ErrorInitIndex", msg |-> <<>>, obj |-> NullIH]
    ELSE LET built == [d \in DOMAIN lvls |-> Index__init__(lvls[d], FALSE, static, FALSE)]
             indexers == build_indexers_from_product([d \in DOMAIN lvls |-> Len(built[d].obj._labels)])
         IN IF FirstExc(built) # "None"
            THEN [exc |-> FirstExc(built), msg |-> <<>>, obj |-> NullIH]
            ELSE IF indexers.exc # "None"
                 THEN [exc |-> indexers.exc, msg |-> <<>>, obj |-> NullIH]
                 ELSE Let([indices |-> [d \in DOMAIN lvls |-> built[d].obj], indexers |-> indexers.val],
                          LAMBDA a : IH__init__(a.indices, a.indexers, static, <<>>, FALSE))

\* IndexHierarchy.from_labels, labels a list of rows (no continuation token, no reorder).
IH_from_labels(labels, static) ==
    IF labels = <<>>
    THEN [exc |-> "ErrorInitIndex", msg |-> <<>>, obj |-> NullIH]
    ELSE LET depth == Len(labels[1])
             column(d) == [r \in DOMAIN labels |-> labels[r][d]]
             hash_maps == [d \in 1..depth |-> Distinct(column(d))]
             indexers == [d \in 1..depth |->
                             [r \in DOMAIN labels |-> FirstPos(hash_maps[d], labels[r][d])]]
             indices == [d \in 1..depth |-> Index__init__(hash_maps[d], FALSE, static, FALSE).obj]
         IN IF depth = 1 \/ \E r \in DOMAIN labels : Len(labels[r]) # depth
            THEN [exc |-> "ErrorInitIndex", msg |-> <<>>, obj |-> NullIH]
            ELSE Let([indices |-> indices, indexers |-> indexers],
                     LAMBDA a : IH__init__(a.indices, a.indexers, static, <<>>, FALSE))

\* PendingRow and a pending IndexHierarchy, as entries of _pending_extensions.
PendingRow(row) == [row |-> TRUE, value |-> row]

PendingExtension(other) == [row |-> FALSE, value |-> other]

\* IndexHierarchy.__len__: the rows of the blocks and, while Dirty, the pending ones.
\* len of a PendingRow is 1, of a pending hierarchy its own __len__.
RECURSIVE IH__len__(_)
IH__len__(self) ==
    LET pending_len(item) == IF item.row THEN 1 ELSE IH__len__(item.value)
        RECURSIVE Sum(_)
        Sum(items) == IF items = <<>> THEN 0 ELSE pending_len(items[1]) + Sum(Tail(items))
    IN IF self._recache
       THEN Blocks__len__(self._blocks) + Sum(self._pending_extensions.items)
       ELSE Blocks__len__(self._blocks)

\* The loop of IndexHierarchyGO.append over the labels of the row: a label a depth does
\* not hold is appended to it; a row longer than the depth ends in IndexError.
RECURSIVE IHGO_append_labels(_, _, _)
IHGO_append_labels(indices, value, depth) ==
    IF depth > Len(value) THEN [exc |-> "None", indices |-> indices]
    ELSE IF depth > Len(indices) THEN [exc |-> "IndexError", indices |-> indices]
    ELSE LET c == Index__contains__(indices[depth], value[depth])
             grown == IF c.val THEN c.obj ELSE IndexGO_append(c.obj, value[depth]).obj
         IN IHGO_append_labels([indices EXCEPT ![depth] = grown], value, depth + 1)

\* IndexHierarchyGO.append
IHGO_append(self, value) ==
    LET r == IHGO_append_labels(self._indices, value, 1)
    IN IF r.exc # "None"
       THEN [exc |-> r.exc, obj |-> [self EXCEPT !._indices = r.indices]]
       ELSE [exc |-> "None",
             obj |-> [self EXCEPT !._indices = r.indices,
                                  !._pending_extensions =
                                      [none |-> FALSE, items |-> Append(@.items, PendingRow(value))],
                                  !._recache = TRUE]]

\* setdiff1d of the labels of two indices: those of ar1 not in ar2, in ar1's order.
setdiff1d(ar1, ar2) ==
    LET Kept(x) == x \notin Range(ar2)
    IN SelectSeq(ar1, Kept)

\* Index.difference(other) through Index._ufunc_set: the labels of the result.
Index_difference(self, other) ==
    LET s == Recached(self)
        o == Recached(other)
    IN IF s._labels = o._labels THEN <<>> ELSE setdiff1d(s._labels, o._labels)

RECURSIVE IndexGO_extend(_, _)
IndexGO_extend(self, values) ==
    IF values = <<>> THEN self
    ELSE IndexGO_extend(IndexGO_append(self, values[1]).obj, Tail(values))

\* IndexHierarchyGO.extend
IHGO_extend(self, other) ==
    LET shared == Min(Len(self._indices), Len(other._indices))
        grown == [d \in DOMAIN self._indices |->
                     IF d <= shared
                     THEN IndexGO_extend(self._indices[d],
                                         Index_difference(other._indices[d], self._indices[d]))
                     ELSE self._indices[d]]
    IN [exc |-> "None",
        obj |-> [self EXCEPT !._indices = grown,
                             !._pending_extensions =
                                 [none |-> FALSE, items |-> Append(@.items, PendingExtension(other))],
                             !._recache = TRUE]]

\* ufunc_unique1d_indexer: the sorted unique values of an integer array, and for each
\* element its position among them.
RECURSIVE SortedSeq(_)
SortedSeq(S) ==
    IF S = {} THEN <<>>
    ELSE LET least == CHOOSE x \in S : \A y \in S : x <= y
         IN <<least>> \o SortedSeq(S \ {least})

ufunc_unique1d_indexer(array) ==
    LET unique == SortedSeq(Range(array))
    IN [unique |-> unique, indexer |-> [i \in DOMAIN array |-> FirstPos(unique, array[i])]]

\* argsort_array with a stable sort: the 0-based positions of the elements in sorted
\* order, equal elements in the order they have in the array.
Argsort(array) ==
    LET n == Len(array) + 1
        coded == SortedSeq({array[i] * n + (i - 1) : i \in DOMAIN array})
    IN [i \in DOMAIN coded |-> coded[i] % n]

\* array[mask] with a Boolean mask
RECURSIVE Compress(_, _)
Compress(array, mask) ==
    IF array = <<>> THEN <<>>
    ELSE (IF mask[1] THEN <<array[1]>> ELSE <<>>) \o Compress(Tail(array), Tail(mask))

\* A variant that returns the positions in the sorted order of the labels of self.
MutIlocMapKeepsSortedOrder(self, other) ==
    LET s == Recached(self)
        o == Recached(other)
        unique == SortedSeq(Range(s._labels))
    IN IF Len(s._labels) = 0 THEN [exc |-> "None", val |-> <<>>, key |-> 0]
       ELSE IF \E i \in DOMAIN unique : unique[i] \notin Range(o._labels)
       THEN [exc |-> "KeyError", val |-> <<>>, key |-> Index_difference(s, o)[1]]
       ELSE [exc |-> "None", val |-> [i \in DOMAIN unique |-> FirstPos(o._labels, unique[i])],
             key |-> 0]

\* Index._index_iloc_map: for each label of self its position in other, found by sorting
\* the labels of both together and taking the pairs of equal neighbours.
Index_index_iloc_map(self, other) ==
    LET s == Recached(self)
        o == Recached(other)
    IN IF Len(s._labels) = 0 THEN [exc |-> "None", val |-> <<>>, key |-> 0]
       ELSE Let(ufunc_unique1d_indexer(s._labels),
                LAMBDA u :
           Let(u.unique \o o._labels,
               LAMBDA aux :
           Let(Argsort(aux),
               LAMBDA aux_sort_indices :
           Let([i \in DOMAIN aux |-> aux[aux_sort_indices[i] + 1]],
               LAMBDA sorted :
           Let(Compress([j \in 1..(Len(aux) - 1) |-> aux_sort_indices[j + 1] - Len(u.unique)],
                        [j \in 1..(Len(aux) - 1) |-> sorted[j + 1] = sorted[j]]),
               LAMBDA indexer :
           Let([i \in DOMAIN u.indexer |-> ArrayGetitem(indexer, u.indexer[i])],
               LAMBDA taken :
                   IF \E i \in DOMAIN taken : taken[i].exc # "None"
                   THEN [exc |-> "KeyError", val |-> <<>>,
                         key |-> Index_difference(s, o)[1]]
                   ELSE [exc |-> "None", val |-> [i \in DOMAIN taken |-> taken[i].val],
                         key |-> 0]))))))

\* IndexHierarchyGO._append: the positions of the row's labels, written at offset.
RECURSIVE IHGO_append_row(_, _, _, _, _)
IHGO_append_row(indices, row, indexers, offset, depth) ==
    IF depth > Len(row) THEN [exc |-> "None", indices |-> indices, indexers |-> indexers]
    ELSE IF depth > Len(indices)
    THEN [exc |-> "IndexError", indices |-> indices, indexers |-> indexers]
    ELSE Let(Index_loc_to_iloc_private(indices[depth], row[depth]),
             LAMBDA r :
                 IF r.exc # "None"
                 THEN [exc |-> r.exc, indices |-> [indices EXCEPT ![depth] = r.obj],
                       indexers |-> indexers]
                 ELSE Let([indices |-> [indices EXCEPT ![depth] = r.obj],
                           indexers |-> [indexers EXCEPT ![depth][offset + 1] = r.val]],
                          LAMBDA done :
                              IHGO_append_row(done.indices, row, done.indexers,
                                              offset, depth + 1)))

\* IndexHierarchyGO._extend: other's indexers remapped to self's sub-indices.  size is
\* len(other) at the time of the replay and other._indexers what other's last recompute
\* left: the assignment to the slice of size cells broadcasts a single cell and raises
\* ValueError for any other number of cells.
IHGO_extend_rows(indices, other, indexers, offset, size) ==
    LET shared == Min(Len(indices), Len(other._indices))
        remapped(d) == Index_index_iloc_map(other._indices[d], indices[d])
        cells(d) == Len(other._indexers[d])
        outcomes == [d \in 1..shared |->
                        IF remapped(d).exc = "None" /\ cells(d) \notin {size, 1}
                        THEN [exc |-> "ValueError"] ELSE [exc |-> remapped(d).exc]]
        ordered(d) == [p \in 1..size |->
                          ArrayGetitem(remapped(d).val,
                                       other._indexers[d][IF cells(d) = size THEN p ELSE 1]).val]
    IN IF FirstExc(outcomes) # "None"
       THEN [exc |-> FirstExc(outcomes), indices |-> indices, indexers |-> indexers]
       ELSE [exc |-> "None", indices |-> indices,
             indexers |-> [d \in DOMAIN indexers |->
                              IF d <= shared
                              THEN [p \in DOMAIN indexers[d] |->
                                       IF p > offset /\ p <= offset + size
                                       THEN ordered(d)[p - offset]
                                       ELSE indexers[d][p]]
                              ELSE indexers[d]]]

\* The loop of _update_array_cache over _pending_extensions.
RECURSIVE IH_replay(_, _, _, _)
IH_replay(indices, pending, indexers, offset) ==
    IF pending = <<>> THEN [exc |-> "None", indices |-> indices, indexers |-> indexers]
    ELSE LET item == pending[1]
             size == IF item.row THEN 1 ELSE IH__len__(item.value)
         IN Let(IF item.row
                THEN IHGO_append_row(indices, item.value, indexers, offset, 1)
                ELSE IHGO_extend_rows(indices, item.value, indexers, offset, size),
                LAMBDA r :
                    IF r.exc # "None" THEN r
                    ELSE IH_replay(r.indices, Tail(pending), r.indexers, offset + size))

RecursionLimit == 3

\* The arrays np.empty allocates for the new indexers, with the current indexers copied
\* to their start; junk is what np.empty left in a cell that nothing writes.
IH_new_indexers(self, junk) ==
    LET size == IH__len__(self)
        current_size == Blocks__len__(self._blocks)
    IN [d \in DOMAIN self._indices |->
           [p \in 1..size |->
               IF d <= Len(self._indexers) /\ p <= current_size
               THEN self._indexers[d][p]
               ELSE junk]]

\* new_indexers[depth][:current_size] = indexer raises ValueError when the indexer
\* neither has current_size cells nor a single one to broadcast.
IH_copy_indexers_raises(self) ==
    \E d \in DOMAIN self._indexers :
        Len(self._indexers[d]) \notin {Blocks__len__(self._blocks), 1}

\* IndexHierarchy._update_array_cache.  The call ends by evaluating self.values while
\* _recache is still set, and the values property then calls _update_array_cache again:
\* frames counts the nested calls, and the interpreter raises RecursionError past
\* RecursionLimit.
RECURSIVE IH_update_array_cache(_, _, _)
IH_update_array_cache(self, junk, frames) ==
    IF frames > RecursionLimit
    THEN [exc |-> "RecursionError", obj |-> self]
    ELSE IF IH_copy_indexers_raises(self)
    THEN [exc |-> "ValueError", obj |-> self]
    ELSE IF self.indexers_class # "list"
    THEN [exc |-> "AttributeError", obj |-> self]   \* self._indexers.clear()
    ELSE Let(IH_replay(self._indices, self._pending_extensions.items,
                       Let(self, LAMBDA me : IH_new_indexers(me, junk)),
                       Blocks__len__(self._blocks)),
             LAMBDA replayed :
                 IF replayed.exc # "None"
                 THEN [exc |-> replayed.exc,
                       obj |-> [self EXCEPT !._indices = replayed.indices,
                                            !._indexers = <<>>]]
                 ELSE Let([d \in DOMAIN self._indices |-> Recached(replayed.indices[d])],
                          LAMBDA indices :
                     IF IH_create_blocks_raises(indices, replayed.indexers)
                     THEN [exc |-> "IndexError",
                           obj |-> [self EXCEPT
                               !._indices = indices,
                               !._pending_extensions = [none |-> FALSE, items |-> <<>>],
                               !._indexers = replayed.indexers]]
                     ELSE
                     Let([self EXCEPT
                             !._indices = indices,
                             !._pending_extensions = [none |-> FALSE, items |-> <<>>],
                             !._indexers = replayed.indexers,
                             !._blocks = IH_create_blocks_from_self(indices,
                                                                    replayed.indexers)],
                         LAMBDA filled :
                     \* self.values, evaluated as the second argument of
                     \* _ensure_uniqueness; the first argument is the list that the
                     \* nested call has cleared
                     Let(IF filled._recache
                         THEN IH_update_array_cache(filled, junk, frames + 1)
                         ELSE [exc |-> "None", obj |-> filled],
                         LAMBDA nested :
                     Let(IH_ensure_uniqueness(
                             IF filled._recache THEN <<>> ELSE filled._indexers,
                             Blocks_values(nested.obj._blocks)),
                         LAMBDA unique :
                             IF nested.exc # "None" THEN nested
                             ELSE IF unique.exc # "None"
                             THEN [exc |-> unique.exc, obj |-> nested.obj]
                             ELSE [exc |-> "None",
                                   obj |-> [nested.obj EXCEPT !._recache = FALSE]])))))

\* "if self._recache: self._update_array_cache()" of IndexHierarchy
IH_recached(self, junk) ==
    IF self._recache THEN IH_update_array_cache(self, junk, 1)
    ELSE [exc |-> "None", obj |-> self]

\* IndexHierarchy.values
IH_values(self, junk) ==
    Let(IH_recached(self, junk),
        LAMBDA r :
            IF r.exc # "None" THEN [exc |-> r.exc, val |-> <<>>, obj |-> r.obj]
            ELSE [exc |-> "None", val |-> Blocks_values(r.obj._blocks), obj |-> r.obj])

\* Index._extract_iloc with an array of positions as key: a new index of those labels.
Index_extract_iloc_array(self, key) ==
    LET s == Recached(self)
    IN Index__init__([i \in DOMAIN key |-> ArrayGetitem(s._labels, key[i]).val],
                     FALSE, s.STATIC, FALSE)

\* A variant that keeps the indexers of the source for the rows it selects.
MutExtractKeepsIndexers(self, key, junk) ==
    Let(IH_recached(self, junk),
        LAMBDA r :
            LET me == r.obj
                selected(a) == [i \in DOMAIN key |-> ArrayGetitem(a, key[i]).val]
                tb == [d \in DOMAIN me._blocks |-> selected(me._blocks[d])]
                parts == [d \in DOMAIN me._indices |->
                             ufunc_unique1d_indexer(selected(me._indexers[d]))]
                new_indices == [d \in DOMAIN me._indices |->
                                   Index_extract_iloc_array(me._indices[d], parts[d].unique).obj]
                new_indexers == [d \in DOMAIN me._indices |-> selected(me._indexers[d])]
            IN IF r.exc # "None" THEN [exc |-> r.exc, msg |-> <<>>, obj |-> r.obj]
               ELSE Let([indices |-> new_indices, indexers |-> new_indexers, blocks |-> tb],
                        LAMBDA a : IH__init__(a.indices, a.indexers, me.STATIC, a.blocks, TRUE)))

\* IndexHierarchy._extract_iloc with a list of positions as key: a new hierarchy.
IH_extract_iloc(self, key, junk) ==
    Let(IH_recached(self, junk),
        LAMBDA r :
            LET me == r.obj
                selected(a) == [i \in DOMAIN key |-> ArrayGetitem(a, key[i]).val]
                tb == [d \in DOMAIN me._blocks |-> selected(me._blocks[d])]
                parts == [d \in DOMAIN me._indices |->
                             ufunc_unique1d_indexer(selected(me._indexers[d]))]
                new_indices == [d \in DOMAIN me._indices |->
                                   Index_extract_iloc_array(me._indices[d], parts[d].unique).obj]
                new_indexers == [d \in DOMAIN me._indices |-> parts[d].indexer]
            IN IF r.exc # "None" THEN [exc |-> r.exc, msg |-> <<>>, obj |-> r.obj]
               ELSE Let([indices |-> new_indices, indexers |-> new_indexers, blocks |-> tb],
                        LAMBDA a : IH__init__(a.indices, a.indexers, me.STATIC, a.blocks, TRUE)))

\* IndexHierarchy._extract_iloc with one integer as key: the row as a tuple.
IH_extract_iloc_by_int(self, key, junk) ==
    Let(IH_recached(self, junk),
        LAMBDA r :
            LET got == ArrayGetitem(Blocks_values(r.obj._blocks), key)
            IN IF r.exc # "None" THEN [exc |-> r.exc, val |-> <<>>, obj |-> r.obj]
               ELSE [exc |-> got.exc, val |-> IF got.exc = "None" THEN got.val ELSE <<>>,
                     obj |-> r.obj])

-----------------------------------------------------------------------------
\* The calls on one Index / IndexGO object.

NoResult == [op |-> "none", arg |-> 0, exc |-> "None", val |-> 0]

\* No second index yet.  A second index is one made from the index under test: by the
\* copying constructor, by copy() or by a set operation of the index with itself.  same
\* tells that the call returned the very object, shares which mutable objects the two
\* have in common (the map of a flat index, the sub-index object of each depth of a
\* hierarchy), dtype the dtype an empty result was built with.
NoTwin == [kind |-> "none", how |-> "none", same |-> FALSE, dtype |-> "none",
           index |-> NullIndex, ih |-> NullIH,
           shares |-> [map |-> FALSE, indices |-> <<>>]]

\* A flat index as the other one sees it after a call has changed one of the two: a map
\* the two have in common holds what map.add put in it (a map bound anew is not seen).
SharedIndex(before, changed, other, t) ==
    IF t.same THEN changed
    ELSE IF t.shares.map /\ before._map # NoMap THEN [other EXCEPT !._map = changed._map]
    ELSE other

\* The same for a hierarchy: a sub-index object the two have in common.
SharedHierarchy(changed, other, t) ==
    IF t.same THEN changed
    ELSE [other EXCEPT
             !._indices = [d \in DOMAIN @ |->
                              IF d \in DOMAIN t.shares.indices /\ t.shares.indices[d]
                              THEN changed._indices[d] ELSE @[d]]]

\* The second index after a call on the one under test.
IndexTwinAfter(changed) ==
    IF twin.kind = "index"
    THEN [twin EXCEPT !.index = SharedIndex(index, changed, @, twin)]
    ELSE twin

HierarchyTwinAfter(changed) ==
    IF twin.kind = "ih" THEN [twin EXCEPT !.ih = SharedHierarchy(changed, @, twin)]
    ELSE twin

AllLabels == history.init \o history.appended

\* The label sequences a constructor call is given: the short ones over Labels and,
\* for the error message, n labels given twice each.
InitLabels == SeqsUpTo(Labels, MaxInitLen) \cup {Doubled(n) : n \in 1..MaxDup}

\* Index(labels) or IndexGO(labels), with loc_is_iloc given only for labels 0..n-1.
Construct(labels, loc_is_iloc, static, generator) ==
    /\ pc = "new"
    /\ loc_is_iloc => labels = PositionsAllocator_get(Len(labels))
    /\ LET r == Index__init__(labels, loc_is_iloc, static, generator)
       IN /\ pc' = IF r.exc = "None" THEN "ready" ELSE "failed"
          /\ index' = r.obj
          /\ result' = [op |-> "init",
                        arg |-> [labels |-> labels, loc_is_iloc |-> loc_is_iloc,
                                 generator |-> generator],
                        exc |-> r.exc, val |-> r.msg]
          /\ history' = [init |-> IF r.exc = "None" THEN labels ELSE <<>>, appended |-> <<>>]
    /\ UNCHANGED <<levels, product, ih, ih_result, ih_rows, twin>>

\* index.append(value)
Append_(value) ==
    /\ pc = "ready"
    /\ ~index.STATIC
    /\ Len(AllLabels) < MaxLen
    /\ LET r == IndexGO_append(index, value)
       IN /\ index' = r.obj
          /\ result' = [op |-> "append", arg |-> value, exc |-> r.exc, val |-> 0]
          /\ history' = IF r.exc = "None"
                        THEN [history EXCEPT !.appended = Append(@, value)]
                        ELSE history
          /\ twin' = IndexTwinAfter(r.obj)
    /\ UNCHANGED <<pc, levels, product, ih, ih_result, ih_rows>>

\* A call that reads the index: r is what it returns and the object it leaves.
Read(op, arg, r) ==
    /\ pc = "ready"
    /\ index' = r.obj
    /\ result' = [op |-> op, arg |-> arg, exc |-> r.exc, val |-> r.val]
    /\ twin' = IndexTwinAfter(r.obj)
    /\ UNCHANGED <<pc, history, levels, product, ih, ih_result, ih_rows>>

\* What the hierarchy was built from and given since: the rows of the constructor call,
\* the rows appended or extended with, and whether any came by extend.
NoRows == [ctor |-> "none", init |-> <<>>, added |-> <<>>, extended |-> FALSE]

InitIndex ==
    /\ pc = "new"
    /\ index = NullIndex
    /\ result = NoResult
    /\ history = [init |-> <<>>, appended |-> <<>>]
    /\ levels = <<>>
    /\ product = NoResult
    /\ ih = NullIH
    /\ ih_rows = NoRows
    /\ ih_result = NoResult
    /\ twin = NoTwin

NextIndex ==
    \/ \E labels \in InitLabels, loc_is_iloc, static, generator \in BOOLEAN :
          Construct(labels, loc_is_iloc, static, generator)
    \/ \E value \in Labels \cup {-1} : Append_(value)
    \/ Read("values", 0, Index_values(index))
    \/ Read("positions", 0, Index_positions(index))
    \/ Read("len", 0, [exc |-> "None", val |-> Index__len__(index).val,
                       obj |-> Index__len__(index).obj])
    \/ Read("iter", 0, Index__iter__(index))
    \/ Read("iter_label", 0, Index_iter_label(index))
    \/ \E key \in Labels \cup {-1, MaxLen} :
           Read("loc_to_iloc", key, Index_loc_to_iloc(index, key))
    \/ \E key \in -1..MaxLen : Read("extract_iloc", key, Index_extract_iloc(index, key))

SpecIndex == InitIndex /\ [][NextIndex]_vars

-----------------------------------------------------------------------------
\* IndexHierarchy.from_product as a function of its levels.

UniqueSeqsUpTo(S, n) == {s \in SeqsUpTo(S, n) : IsUnique(s)}

\* The lists a level is given as: unique labels, the empty list included.
LevelTuples ==
    UNION {[1..k -> UniqueSeqsUpTo(0..MaxLevelLabel, MaxLevelLen)] : k \in 1..MaxDepth}

FromProduct(static) ==
    /\ product.op = "none"
    /\ LET r == IH_from_product(levels, static)
       IN product' = [op |-> "from_product", arg |-> levels, exc |-> r.exc, val |-> r.obj]
    /\ UNCHANGED <<pc, index, result, history, levels, ih, ih_result, ih_rows, twin>>

InitProduct ==
    /\ pc = "new"
    /\ index = NullIndex
    /\ result = NoResult
    /\ history = [init |-> <<>>, appended |-> <<>>]
    /\ levels \in LevelTuples
    /\ product = NoResult
    /\ ih = NullIH
    /\ ih_result = NoResult
    /\ ih_rows = NoRows
    /\ twin = NoTwin

NextProduct == \E static \in BOOLEAN : FromProduct(static)

SpecProduct == InitProduct /\ [][NextProduct]_vars

-----------------------------------------------------------------------------
\* The calls on one IndexHierarchy / IndexHierarchyGO object.

HLabels == 0..MaxHLabel

\* Rows of depth two.
HRows == {<<a, b>> : a, b \in HLabels}

\* What np.empty may have left in a cell: a position every sub-index has, or one none has.
JunkValues == {0, StrBase + MaxHRows}

\* Lists of positions to extract: none, one, two in reverse order, one twice.
ExtractKeys == {<<>>, <<0>>, <<1, 0>>, <<0, 0>>}

HLevelLists == UniqueSeqsUpTo(HLabels, MaxHLabel + 1)

\* Indexers of depth two for direct construction: positions of the given levels.
HIndexers ==
    UNION {[1..2 -> [1..n -> 0..MaxHLabel]] : n \in 0..MaxHInit}

HConstructed(ctor, arg, rows, r) ==
    /\ pc' = IF r.exc = "None" THEN "ready" ELSE "failed"
    /\ ih' = r.obj
    /\ ih_result' = [op |-> ctor, arg |-> arg, exc |-> r.exc, val |-> r.msg]
    /\ ih_rows' = [ctor |-> ctor, init |-> IF r.exc = "None" THEN rows ELSE <<>>,
                   added |-> <<>>, extended |-> FALSE]
    /\ UNCHANGED <<index, result, history, levels, product, twin>>

\* IndexHierarchy.from_labels(rows) or IndexHierarchyGO.from_labels(rows)
HFromLabels(rows, static) ==
    /\ pc = "new"
    /\ HConstructed("from_labels", rows, rows, IH_from_labels(rows, static))

\* from_product with two levels
HFromProduct(lvls, static) ==
    /\ pc = "new"
    /\ LET r == IH_from_product(lvls, static)
       IN HConstructed("from_product", lvls,
                       IF r.exc = "None" THEN Blocks_values(r.obj._blocks) ELSE <<>>, r)

\* IndexHierarchy(indices, indexers=indexers), each of the two indices built from the
\* labels 0..MaxHLabel
HInit(indexers, static) ==
    /\ pc = "new"
    /\ LET lvls == [d \in 1..2 |-> PositionsAllocator_get(MaxHLabel + 1)]
           indices == [d \in 1..2 |-> Index__init__(lvls[d], FALSE, static, FALSE).obj]
           rows == [p \in DOMAIN indexers[1] |->
                       [d \in 1..2 |-> lvls[d][indexers[d][p] + 1]]]
       IN HConstructed("init", indexers, rows,
                       IH__init__(indices, indexers, static, <<>>, FALSE))

\* ih.append(row)
HAppend(row) ==
    /\ pc = "ready"
    /\ ~ih.STATIC
    /\ IH__len__(ih) < MaxHRows
    /\ LET r == IHGO_append(ih, row)
       IN /\ ih' = r.obj
          /\ ih_result' = [op |-> "append", arg |-> row, exc |-> r.exc, val |-> <<>>]
          /\ ih_rows' = IF r.exc = "None"
                        THEN [ih_rows EXCEPT !.added = Append(@, row)]
                        ELSE ih_rows
          /\ twin' = HierarchyTwinAfter(r.obj)
    /\ UNCHANGED <<pc, index, result, history, levels, product>>

\* ih.extend(other), other an IndexHierarchy built from rows
HExtend(rows) ==
    /\ pc = "ready"
    /\ ~ih.STATIC
    /\ IH__len__(ih) + Len(rows) <= MaxHRows
    /\ LET other == IH_from_labels(rows, TRUE)
           r == IHGO_extend(ih, other.obj)
       IN /\ other.exc = "None"
          /\ ih' = r.obj
          /\ ih_result' = [op |-> "extend", arg |-> rows, exc |-> r.exc, val |-> <<>>]
          /\ ih_rows' = [ih_rows EXCEPT !.added = @ \o rows, !.extended = TRUE]
          /\ twin' = HierarchyTwinAfter(r.obj)
    /\ UNCHANGED <<pc, index, result, history, levels, product>>

\* A call that reads the hierarchy: r is what it returns and the object it leaves.
HRead(op, arg, r) ==
    /\ pc = "ready"
    /\ ih' = r.obj
    /\ ih_result' = [op |-> op, arg |-> arg, exc |-> r.exc, val |-> r.val]
    /\ twin' = HierarchyTwinAfter(r.obj)
    /\ UNCHANGED <<pc, index, result, history, levels, product, ih_rows>>

HValues(junk) == HRead("values", 0, IH_values(ih, junk))

HLen == HRead("len", 0, [exc |-> "None", val |-> IH__len__(ih), obj |-> ih])

\* IndexHierarchy.shape: while Dirty the length and the depth, else the shape of the blocks.
IH_shape(self) ==
    IF self._recache THEN <<IH__len__(self), Len(self._indices)>>
    ELSE <<Blocks__len__(self._blocks), Len(self._blocks)>>

\* ih._extract_iloc(key), key a list of positions the hierarchy has; the value is the
\* new hierarchy.
HExtract(key, junk) ==
    /\ \A i \in DOMAIN key : key[i] < IH__len__(ih)
    /\ LET r == IH_extract_iloc(ih, key, junk)
       IN HRead("extract_iloc", key,
                [exc |-> r.exc,
                 val |-> IF r.exc = "None" THEN r.obj ELSE r.msg,
                 obj |-> IH_recached(ih, junk).obj])

InitHierarchy ==
    /\ pc = "new"
    /\ index = NullIndex
    /\ result = NoResult
    /\ history = [init |-> <<>>, appended |-> <<>>]
    /\ levels = <<>>
    /\ product = NoResult
    /\ ih = NullIH
    /\ ih_result = NoResult
    /\ ih_rows = NoRows
    /\ twin = NoTwin

NextHierarchy ==
    \/ \E rows \in SeqsUpTo(HRows, MaxHInit), static \in BOOLEAN : HFromLabels(rows, static)
    \/ \E lvls \in [1..2 -> HLevelLists], static \in BOOLEAN : HFromProduct(lvls, static)
    \/ \E indexers \in HIndexers, static \in BOOLEAN : HInit(indexers, static)
    \/ \E row \in HRows : HAppend(row)
    \/ \E rows \in SeqsUpTo(HRows, MaxHInit) : HExtend(rows)
    \/ \E junk \in JunkValues : HValues(junk)
    \/ HLen
    \/ \E key \in {-1, 0, MaxHRows}, junk \in JunkValues :
           HRead("extract_iloc_int", key, IH_extract_iloc_by_int(ih, key, junk))
    \/ \E key \in ExtractKeys, junk \in JunkValues : HExtract(key, junk)

SpecHierarchy == InitHierarchy /\ [][NextHierarchy]_vars

-----------------------------------------------------------------------------
\* Properties of Index / IndexGO, checked under SpecIndex.

\* C1: for a sequence L of unique labels, Index(L).loc_to_iloc(L[i]) is i for every
\* position i: positions are dense, zero-based and in construction order.
C1_LocToIlocIsPosition ==
    (pc = "ready" /\ history.appended = <<>>) =>
        /\ \A i \in DOMAIN history.init :
              LET r == Index_loc_to_iloc(index, history.init[i])
              IN r.exc = "None" /\ r.val = i - 1
        /\ (result.op = "loc_to_iloc" /\ result.arg \in Range(history.init)) =>
              /\ result.exc = "None"
              /\ result.val >= 0 /\ result.val < Len(history.init)
              /\ history.init[result.val + 1] = result.arg

\* A call of loc_to_iloc on a freshly built index with a map returned position 1.
C1_Witness ==
    /\ pc = "ready" /\ history.appended = <<>> /\ ~index._map.none
    /\ result.op = "loc_to_iloc" /\ result.exc = "None" /\ result.val = 1
    /\ Len(history.init) >= 2

\* C2: an IndexGO built from L0 and given a1..ak by successful appends equals the
\* Index built from L0 followed by a1..ak: same labels in the same order, same length,
\* and loc_to_iloc of every label gives the same position.
C2_AppendedEqualsDirect ==
    (pc = "ready" /\ ~index.STATIC /\ history.appended # <<>>) =>
        LET direct == Index__init__(AllLabels, FALSE, TRUE, FALSE).obj
        IN /\ Index_values(index).val = Index_values(direct).val
           /\ Index__len__(index).val = Index__len__(direct).val
           /\ \A i \in DOMAIN AllLabels :
                 LET mine == Index_loc_to_iloc(index, AllLabels[i])
                     theirs == Index_loc_to_iloc(direct, AllLabels[i])
                 IN mine.exc = theirs.exc /\ mine.val = theirs.val

\* C3 as claimed: an append of a label the index already contains raises and leaves the
\* map, the mutable label list, the position count and the dirty flag as they were.
C3_FailedAppendChangesNothing ==
    [][(result'.op = "append" /\ result'.exc = "KeyError") =>
            /\ index'._map = index._map
            /\ index'._labels_mutable = index._labels_mutable
            /\ index'._positions_mutable_count = index._positions_mutable_count
            /\ index'._recache = index._recache]_vars

\* C3 as amended: an append of a label the index already contains raises KeyError and
\* leaves the map, the mutable label list and the position count as they were; with a
\* map the whole object is unchanged, and with no map (positions are labels) the
\* membership test has run the pending recompute, so the dirty flag is cleared and the
\* cached arrays hold the full label sequence.
C3_FailedAppendKeepsLabels ==
    [][(result'.op = "append" /\ pc = "ready") =>
            /\ (result'.arg \in Range(AllLabels)) <=> (result'.exc = "KeyError")
            /\ (result'.exc = "KeyError") =>
                  /\ index'._map = index._map
                  /\ index'._labels_mutable = index._labels_mutable
                  /\ index'._positions_mutable_count = index._positions_mutable_count
                  /\ ~index._map.none => index' = index
                  /\ index._map.none => index' = IndexGO_update_array_cache(index)]_vars

\* An append of a contained label was refused on an index that had been appended to.
C3_Witness ==
    /\ pc = "ready" /\ result.op = "append" /\ result.exc = "KeyError"
    /\ history.appended # <<>>

\* C4: after any appends, every read (values, positions, len, iteration, iter_label,
\* public loc_to_iloc, extraction by position) is answered from the full current label
\* sequence, never from the arrays cached before the appends.
C4_ReadsSeeAllLabels ==
    pc = "ready" =>
        /\ (result.op \in {"values", "iter", "iter_label"}) => result.val = AllLabels
        /\ (result.op = "positions") => result.val = PositionsAllocator_get(Len(AllLabels))
        /\ (result.op = "len") => result.val = Len(AllLabels)
        /\ (result.op = "loc_to_iloc" /\ result.arg \in Range(AllLabels)) =>
              result.exc = "None" /\ result.val = FirstPos(AllLabels, result.arg)
        /\ (result.op = "extract_iloc" /\ result.arg \in 0..(Len(AllLabels) - 1)) =>
              result.exc = "None" /\ result.val = AllLabels[result.arg + 1]

\* C5: constructing an Index from a label sequence with a repeated label raises
\* ErrorInitIndexNonUnique and yields no index; for a sequence (not a consumed
\* generator) the message gives the number of duplicate occurrences, total labels minus
\* distinct labels, and at most 10 example labels, each of them duplicated.
C5_DuplicateLabelsRejected ==
    (result.op = "init" /\ ~IsUnique(result.arg.labels)) =>
        /\ result.exc = "ErrorInitIndexNonUnique"
        /\ pc = "failed"
        /\ index = NullIndex
        /\ ~result.arg.generator =>
              /\ result.val.details
              /\ result.val.count =
                    Len(result.arg.labels) - Cardinality(Range(result.arg.labels))
              /\ Len(result.val.examples) <= 10
              /\ Len(result.val.examples) >= 1
              /\ \A i \in DOMAIN result.val.examples :
                    CountOf(result.arg.labels, result.val.examples[i]) > 1

\* A construction from 11 labels given twice each was refused, naming 10 of them.
C5_Witness ==
    /\ pc = "failed" /\ result.op = "init" /\ result.exc = "ErrorInitIndexNonUnique"
    /\ ~result.arg.generator
    /\ result.val.count = 11
    /\ Len(result.val.examples) = 10

-----------------------------------------------------------------------------
\* Properties of from_product, checked under SpecProduct.

\* C6: for k >= 2 lists of unique labels, from_product has length the product of the
\* list lengths, the composite label at position p is the p-th tuple of the cartesian
\* product (first list varies slowest), and depth d's indexer repeats each of its values
\* prod_{j>d} len(Lj) times and that cycle prod_{j<d} len(Lj) times.
C6_ProductIsCartesian ==
    (product.op = "from_product" /\ Len(levels) >= 2) =>
        LET lens == [d \in DOMAIN levels |-> Len(levels[d])]
            n == Prod(lens)
            inner(d) == Prod(SubSeq(lens, d + 1, Len(lens)))
            coord(p, d) == ((p - 1) \div inner(d)) % lens[d]
        IN /\ product.exc = "None"
           /\ IH__len__(product.val) = n
           /\ Blocks_values(product.val._blocks) =
                 [p \in 1..n |-> [d \in DOMAIN levels |-> levels[d][coord(p, d) + 1]]]
           /\ product.val._indexers = [d \in DOMAIN levels |-> [p \in 1..n |-> coord(p, d)]]

-----------------------------------------------------------------------------
\* Properties of IndexHierarchy / IndexHierarchyGO, checked under SpecHierarchy.

\* The rows the hierarchy was built from followed by those appended or extended with.
AllRows == ih_rows.init \o ih_rows.added

\* C7: constructing a hierarchy from rows (from_labels, or indices and indexers) in which
\* two positions carry the same composite tuple raises the duplicate-label error at
\* construction and yields no index.
C7_DuplicateRowsRejected ==
    (ih_result.op \in {"from_labels", "init"}) =>
        LET rows == IF ih_result.op = "from_labels" THEN ih_result.arg
                    ELSE [p \in DOMAIN ih_result.arg[1] |->
                             <<ih_result.arg[1][p], ih_result.arg[2][p]>>]
        IN ~IsUnique(rows) =>
              /\ ih_result.exc = "ErrorInitIndexNonUnique"
              /\ pc = "failed"
              /\ ih = NullIH

\* from_labels was given the same row twice and raised.
C7_Witness ==
    /\ pc = "failed"
    /\ ih_result.op = "from_labels"
    /\ Len(ih_result.arg) = 2 /\ ih_result.arg[1] = ih_result.arg[2]
    /\ ih_result.exc = "ErrorInitIndexNonUnique"

\* C8: in every Clean state reached through construction, append/extend followed by a
\* successful recompute, and extraction by position: every indexer has length n, every
\* indexer value is a position of its depth's sub-index, the materialized label at
\* position p is the tuple of depths[d].labels[indexers[d][p]], and the indexer tuples
\* of two distinct positions differ.
C8_CleanStateInvariant ==
    LET Clean(h) ==
            LET n == IH__len__(h)
                sub(d) == Index_values(h._indices[d]).val
            IN /\ DOMAIN h._indexers = DOMAIN h._indices
               /\ \A d \in DOMAIN h._indexers : Len(h._indexers[d]) = n
               /\ \A d \in DOMAIN h._indexers : \A p \in 1..n :
                     h._indexers[d][p] \in 0..(Len(sub(d)) - 1)
               /\ Blocks_values(h._blocks) =
                     [p \in 1..n |-> [d \in DOMAIN h._indices |-> sub(d)[h._indexers[d][p] + 1]]]
               /\ \A p, q \in 1..n :
                     (\A d \in DOMAIN h._indexers : h._indexers[d][p] = h._indexers[d][q])
                        => p = q
    IN /\ (pc = "ready" /\ ~ih._recache) => Clean(ih)
       /\ (ih_result.op = "extract_iloc" /\ ih_result.exc = "None") => Clean(ih_result.val)

\* The first two rows of a four-row hierarchy were extracted in reverse order, and the
\* new hierarchy keeps at depth 0 only the one label those rows use.
C8_Witness ==
    /\ pc = "ready" /\ ~ih._recache /\ IH__len__(ih) = 4
    /\ ih_result.op = "extract_iloc" /\ ih_result.exc = "None"
    /\ ih_result.arg = <<1, 0>>
    /\ IH__len__(ih_result.val) = 2
    /\ Len(Index_values(ih_result.val._indices[1]).val) = 1

\* C9: an append-only hierarchy built by from_labels from a non-empty prefix of N
\* pairwise-distinct rows of equal depth and given the remaining rows one at a time by
\* append has, after a forced recompute, the same sub-index labels, the same indexers
\* and the same materialized block as from_labels of all N rows.
C9_AppendsEqualFromLabels ==
    (/\ pc = "ready" /\ ~ih.STATIC
     /\ ih_rows.ctor = "from_labels" /\ ih_rows.added # <<>> /\ ~ih_rows.extended
     /\ Range(AllRows) \subseteq HRows /\ IsUnique(AllRows)) =>
        \A junk \in JunkValues :
            LET forced == IH_values(ih, junk)
                direct == IH_from_labels(AllRows, FALSE).obj
            IN /\ forced.exc = "None"
               /\ \A d \in DOMAIN direct._indices :
                     Index_values(forced.obj._indices[d]).val = Index_values(direct._indices[d]).val
               /\ forced.obj._indexers = direct._indexers
               /\ forced.obj._blocks = direct._blocks

\* C10: an append(row) or extend(other) that introduces a composite tuple already
\* present does not raise at the call; the duplicate-label error is raised by the first
\* later read that forces a recompute, and by no operation before that read.
C10_DuplicateSurfacesAtRead ==
    [][/\ (/\ ih_result'.op \in {"append", "extend"}
           /\ ih_rows'.added # ih_rows.added
           /\ Range(ih_rows'.added) \subseteq HRows
           /\ ~IsUnique(ih_rows'.init \o ih_rows'.added))
              => ih_result'.exc = "None"
       /\ (/\ ih_result'.op \in {"values", "extract_iloc", "extract_iloc_int"}
           /\ pc = "ready" /\ ih._recache /\ ih._pending_extensions.items # <<>>
           /\ ih' # ih
           /\ Range(AllRows) \subseteq HRows
           /\ ~IsUnique(AllRows))
              => ih_result'.exc = "ErrorInitIndexNonUnique"
       /\ (ih_result'.op \in {"append", "extend", "len"})
              => ih_result'.exc # "ErrorInitIndexNonUnique"]_vars

-----------------------------------------------------------------------------
\* Appends of rows of any length to an IndexHierarchyGO of depth two.

MaxRowLen == 3

\* Rows of one to MaxRowLen labels: shorter than, as long as, and longer than the depth.

NextRagged ==
    \/ \E rows \in SeqsUpTo(HRows, MaxHInit) : HFromLabels(rows, FALSE)
    \/ \E row \in UNION {[1..n -> HLabels] : n \in 1..MaxRowLen} : HAppend(row)
    \/ \E junk \in JunkValues : HValues(junk)
    \/ HLen
    \/ HRead("shape", 0, [exc |-> "None", val |-> IH_shape(ih), obj |-> ih])

SpecRagged == InitHierarchy /\ [][NextRagged]_vars

\* C11: append(row) with a row shorter or longer than the depth returns without
\* raising, and the next read that forces a recompute raises the depth error: the code
\* reports a depth mismatch with ErrorInitIndex ("All labels must have the same depth.")
\* or, in loc_to_iloc, with RuntimeError.
C11_RaggedAppendDeferred ==
    [][/\ (ih_result'.op = "append" /\ Len(ih_result'.arg) # Len(ih._indices))
            => ih_result'.exc = "None"
       /\ (/\ ih_result'.op = "values"
           /\ ih._recache
           /\ \E i \in DOMAIN ih._pending_extensions.items :
                  /\ ih._pending_extensions.items[i].row
                  /\ Len(ih._pending_extensions.items[i].value) # Len(ih._indices))
            => ih_result'.exc \in {"ErrorInitIndex", "RuntimeError"}]_vars

-----------------------------------------------------------------------------
\* Selection by label on IndexHierarchy.  One component of a key is a record that holds,
\* by its kind, a label, a list of labels, a slice whose start, stop and step are <<>>
\* for None and <<x>> otherwise, or a Boolean mask.

KeyPart(kind, label, list, start, stop, step, mask) ==
    [kind |-> kind, label |-> label, list |-> list,
     start |-> start, stop |-> stop, step |-> step, mask |-> mask]

KeyLabel(v) == KeyPart("label", v, <<>>, <<>>, <<>>, <<>>, <<>>)

KeyList(v) == KeyPart("list", 0, v, <<>>, <<>>, <<>>, <<>>)

KeySlice(start, stop, step) == KeyPart("slice", 0, <<>>, start, stop, step, <<>>)

KeyMask(v) == KeyPart("mask", 0, <<>>, <<>>, <<>>, <<>>, v)

NULL_SLICE == KeySlice(<<>>, <<>>, <<>>)

\* isinstance(subkey, KEY_MULTIPLE_TYPES)
IsKeyMultiple(k) == k.kind \in {"slice", "list", "mask"}

\* isin(array, other): the Boolean array of membership.
Isin(array, other) == [p \in DOMAIN array |-> array[p] \in Range(other)]

\* a[start:] of Python: a negative start counts from the end.
SliceFrom(a, start) ==
    LET from == IF start >= 0 THEN start
                ELSE IF Len(a) + start > 0 THEN Len(a) + start ELSE 0
    IN IF from >= Len(a) THEN <<>> ELSE SubSeq(a, from + 1, Len(a))

\* np.arange(start, stop, step) with a positive step.
Arange(start, stop, step) ==
    IF stop <= start THEN <<>>
    ELSE [i \in 1..(((stop - start) + step - 1) \div step) |-> start + (i - 1) * step]

\* Index.loc_to_iloc with a list of labels as key: with a map, the position of each label
\* (LocMap.loc_to_iloc); without one, the key itself when self._positions[key] accepts it.
Index_loc_to_iloc_list(self, key) ==
    IF self._map.none
    THEN IF \A i \in DOMAIN key :
                IsInt(key[i]) /\ ArrayGetitem(self._positions, key[i]).exc = "None"
         THEN [exc |-> "None", val |-> key, obj |-> self]
         ELSE [exc |-> "KeyError", val |-> <<>>, obj |-> self]
    ELSE IF \A i \in DOMAIN key : AutoMap_contains(self._map, key[i])
         THEN [exc |-> "None",
               val |-> [i \in DOMAIN key |-> AutoMap_getitem(self._map, key[i])],
               obj |-> Recached(self)]
         ELSE [exc |-> "KeyError", val |-> <<>>, obj |-> Recached(self)]

\* IndexHierarchy._build_mask_for_key_at_depth; index is the sub-index as the lookups
\* leave it.
IH_build_mask_for_key_at_depth(self, depth, key) ==
    LET key_at_depth == key[depth]
        index_at_depth == self._indices[depth]
        indexer_at_depth == self._indexers[depth]
    IN IF key_at_depth.kind = "mask"
       THEN [exc |-> "None", val |-> key_at_depth.mask, index |-> index_at_depth]
       ELSE IF key_at_depth.kind = "slice"
       THEN LET start == IF key_at_depth.start # <<>>
                         THEN Index_loc_to_iloc(index_at_depth, key_at_depth.start[1])
                         ELSE [exc |-> "None", val |-> 0, obj |-> index_at_depth]
                found == IF key_at_depth.stop # <<>>
                         THEN Index_loc_to_iloc(start.obj, key_at_depth.stop[1])
                         ELSE [exc |-> "None", val |-> Len(indexer_at_depth) - 1,
                               obj |-> start.obj]
                stop == found.val + 1
                other == IF key_at_depth.step = <<>> \/ key_at_depth.step = <<1>>
                         THEN SliceFrom(PositionsAllocator_get(IF stop > 0 THEN stop ELSE 0),
                                        start.val)
                         ELSE Arange(start.val, stop, key_at_depth.step[1])
            IN IF start.exc # "None"
               THEN [exc |-> start.exc, val |-> <<>>, index |-> start.obj]
               ELSE IF found.exc # "None"
               THEN [exc |-> found.exc, val |-> <<>>, index |-> found.obj]
               ELSE [exc |-> "None", val |-> Isin(indexer_at_depth, other),
                     index |-> found.obj]
       ELSE IF key_at_depth.kind = "list"
       THEN LET key_iloc == Index_loc_to_iloc_list(index_at_depth, key_at_depth.list)
            IN IF key_iloc.exc # "None"
               THEN [exc |-> key_iloc.exc, val |-> <<>>, index |-> key_iloc.obj]
               ELSE [exc |-> "None", val |-> Isin(indexer_at_depth, key_iloc.val),
                     index |-> key_iloc.obj]
       ELSE LET key_iloc == Index_loc_to_iloc(index_at_depth, key_at_depth.label)
            IN IF key_iloc.exc # "None"
               THEN [exc |-> key_iloc.exc, val |-> <<>>, index |-> key_iloc.obj]
               ELSE [exc |-> "None",
                     val |-> [p \in DOMAIN indexer_at_depth |->
                                 indexer_at_depth[p] = key_iloc.val],
                     index |-> key_iloc.obj]

\* The loop of _loc_to_iloc_single_key that fills mask_2d, one column for each
\* meaningful depth of the key.
RECURSIVE IH_fill_mask_2d(_, _, _, _)
IH_fill_mask_2d(self, key, depth, mask_2d) ==
    IF depth > Len(key) THEN [exc |-> "None", val |-> mask_2d, obj |-> self]
    ELSE IF key[depth] = NULL_SLICE THEN IH_fill_mask_2d(self, key, depth + 1, mask_2d)
    ELSE Let(IH_build_mask_for_key_at_depth(self, depth, key),
             LAMBDA mask :
                 Let([self EXCEPT !._indices[depth] = mask.index],
                     LAMBDA me :
                         IF mask.exc # "None"
                         THEN [exc |-> mask.exc, val |-> mask_2d, obj |-> me]
                         ELSE IH_fill_mask_2d(me, key, depth + 1,
                                              [mask_2d EXCEPT ![depth] = mask.val])))

\* self.positions[mask]
PositionsOfMask(mask) ==
    LET Selected(p) == mask[p + 1]
    IN SelectSeq(PositionsAllocator_get(Len(mask)), Selected)

\* IndexHierarchy._loc_to_iloc_single_key: array tells an array of positions from a
\* single integer.
IH_loc_to_iloc_single_key(self, key) ==
    LET meaningful == {d \in DOMAIN key : key[d] # NULL_SLICE}
        size == Blocks__len__(self._blocks)
        single == CHOOSE d \in meaningful : TRUE
    IN Let(IF Cardinality(meaningful) = 1
           THEN Let(IH_build_mask_for_key_at_depth(self, single, key),
                    LAMBDA mask : [exc |-> mask.exc, val |-> mask.val,
                                   obj |-> [self EXCEPT !._indices[single] = mask.index]])
           ELSE Let(IH_fill_mask_2d(self, key, 1,
                                    [d \in DOMAIN self._indices |-> [p \in 1..size |-> TRUE]]),
                    LAMBDA filled :
                        [exc |-> filled.exc,
                         val |-> [p \in 1..size |->
                                     \A d \in DOMAIN filled.val : filled.val[d][p]],
                         obj |-> filled.obj]),
           LAMBDA mask :
               IF mask.exc # "None"
               THEN [exc |-> mask.exc, val |-> <<>>, array |-> TRUE, obj |-> mask.obj]
               ELSE Let(PositionsOfMask(mask.val),
                        LAMBDA found :
                            IF /\ Len(found) = 1
                               /\ \A d \in DOMAIN key : d \in meaningful /\ key[d].kind \in {"label", "slice"}
                            THEN [exc |-> "None", val |-> found[1], array |-> FALSE,
                                  obj |-> mask.obj]
                            ELSE [exc |-> "None", val |-> found, array |-> TRUE,
                                  obj |-> mask.obj]))

\* view_2d_as_1d: one value for each row, ordered as the rows are.
RowCodes(rows) ==
    LET RECURSIVE Code(_)
        Code(row) == IF row = <<>> THEN 0
                     ELSE Code(SubSeq(row, 1, Len(row) - 1)) * StrBase + row[Len(row)]
    IN [p \in DOMAIN rows |-> Code(rows[p])]

\* np.intersect1d(ar1, ar2, assume_unique=True, return_indices=True)[1]: the positions
\* in ar1 of the values both arrays hold.
Intersect1dIndices(ar1, ar2) ==
    Let(ar1 \o ar2,
        LAMBDA aux :
    Let(Argsort(aux),
        LAMBDA aux_sort_indices :
    Let([i \in DOMAIN aux |-> aux[aux_sort_indices[i] + 1]],
        LAMBDA sorted :
            Compress([j \in 1..(Len(aux) - 1) |-> aux_sort_indices[j]],
                     [j \in 1..(Len(aux) - 1) |-> sorted[j + 1] = sorted[j]]))))

\* IndexHierarchy._loc_to_iloc_index_hierarchy
IH_loc_to_iloc_index_hierarchy(self, key) ==
    IF Len(key._indices) # Len(self._indices)
    THEN [exc |-> "KeyError", val |-> <<>>, array |-> TRUE, obj |-> self]
    ELSE Let([d \in DOMAIN self._indices |->
                 Index_index_iloc_map(key._indices[d], self._indices[d])],
             LAMBDA indexer_remap :
                 IF FirstExc(indexer_remap) # "None"
                 THEN [exc |-> FirstExc(indexer_remap), val |-> <<>>, array |-> TRUE,
                       obj |-> self]
                 ELSE Let([d \in DOMAIN self._indices |->
                              [p \in DOMAIN key._indexers[d] |->
                                  ArrayGetitem(indexer_remap[d].val, key._indexers[d][p]).val]],
                          LAMBDA key_indexers :
                              [exc |-> "None",
                               val |-> Intersect1dIndices(
                                           RowCodes(IndexerRows(self._indexers)),
                                           RowCodes(IndexerRows(key_indexers))),
                               array |-> TRUE, obj |-> self]))

\* A key of IndexHierarchy.loc_to_iloc: a plain tuple, an HLoc, or an IndexHierarchy.
KeyTuple(v) == [kind |-> "tuple", v |-> v]

KeyHLoc(v) == [kind |-> "hloc", v |-> v]

KeyIH(v) == [kind |-> "ih", v |-> v]

\* IndexHierarchy._loc_to_iloc, which loc_to_iloc returns: key_from_container_key
\* returns a tuple as it is.
IH_loc_to_iloc(self, key, junk) ==
    Let(IH_recached(self, junk),
        LAMBDA r :
            IF r.exc # "None"
            THEN [exc |-> r.exc, val |-> <<>>, array |-> TRUE, obj |-> r.obj]
            ELSE IF key.kind = "ih" THEN IH_loc_to_iloc_index_hierarchy(r.obj, key.v)
            ELSE IF key.kind = "hloc"
            THEN IF Len(key.v) > Len(r.obj._indices)
                 THEN [exc |-> "RuntimeError", val |-> <<>>, array |-> TRUE, obj |-> r.obj]
                 ELSE IH_loc_to_iloc_single_key(r.obj, key.v)
            ELSE IF Len(key.v) # Len(r.obj._indices)
            THEN [exc |-> "RuntimeError", val |-> <<>>, array |-> TRUE, obj |-> r.obj]
            ELSE IF \E d \in DOMAIN key.v : IsKeyMultiple(key.v[d])
            THEN [exc |-> "RuntimeError", val |-> <<>>, array |-> TRUE, obj |-> r.obj]
            ELSE IH_loc_to_iloc_single_key(r.obj, key.v))

\* The plain tuple of the labels of a row.
RowKey(row) == KeyTuple([d \in DOMAIN row |-> KeyLabel(row[d])])

-----------------------------------------------------------------------------
\* Selection by label on hierarchies built by the constructors and grown by append.

\* Labels of keys: those of the rows and one no hierarchy holds.
MissingLabel == MaxHLabel + 1

\* Plain tuples: every pair of labels, and a tuple shorter and one longer than the depth.
TupleKeys ==
    {RowKey(row) : row \in {<<a, b>> : a, b \in HLabels \cup {MissingLabel}} \cup {<<0>>, <<0, 0, 0>>}}

\* Hierarchies given as keys: of one or two rows of depth two, or of one row of depth
\* three.
KeyRowLists ==
    {<<row>> : row \in {<<0, 0>>, <<1, 0>>, <<0, 1>>, <<0, MissingLabel>>, <<0, 0, 0>>}}
        \cup {<<<<0, 0>>, <<1, 0>>>>, <<<<1, 1>>, <<0, 0>>>>, <<<<0, 1>>, <<0, MissingLabel>>>>}

HierarchyKeys == {KeyIH(IH_from_labels(rows, TRUE).obj) : rows \in KeyRowLists}

\* ih.loc_to_iloc(key)
HLocToIloc(key, junk) ==
    LET r == IH_loc_to_iloc(ih, key, junk)
    IN HRead("loc_to_iloc", key,
             [exc |-> r.exc, val |-> [array |-> r.array, v |-> r.val], obj |-> r.obj])

NextLookup ==
    \/ \E rows \in SeqsUpTo(HRows, MaxHInit), static \in BOOLEAN : HFromLabels(rows, static)
    \/ \E lvls \in [1..2 -> HLevelLists], static \in BOOLEAN : HFromProduct(lvls, static)
    \/ \E row \in HRows : HAppend(row)
    \/ \E key \in TupleKeys, junk \in JunkValues : HLocToIloc(key, junk)
    \/ \E key \in HierarchyKeys, junk \in JunkValues : HLocToIloc(key, junk)

SpecLookup == InitHierarchy /\ [][NextLookup]_vars

-----------------------------------------------------------------------------
\* Properties of selection by label, checked under SpecLookup.

\* C12: for every hierarchy, immutable or append-only after any successful appends, and
\* every position p, loc_to_iloc of the composite label at p, given as a full tuple,
\* returns the integer p.
C12_FullTupleIsPosition ==
    (pc = "ready" /\ IsUnique(AllRows)) =>
        \A p \in DOMAIN AllRows : \A junk \in JunkValues :
            LET r == IH_loc_to_iloc(ih, RowKey(AllRows[p]), junk)
            IN r.exc = "None" /\ ~r.array /\ r.val = p - 1

\* C13: loc_to_iloc with a full tuple that is not a label of the hierarchy raises
\* KeyError, both when a component is missing from its sub-index and when every
\* component is present but the combination is at no position.
C13_AbsentTupleRaises ==
    (/\ pc = "ready"
     /\ ih_result.op = "loc_to_iloc"
     /\ ih_result.arg.kind = "tuple"
     /\ Len(ih_result.arg.v) = Len(ih._indices)
     /\ [d \in DOMAIN ih_result.arg.v |-> ih_result.arg.v[d].label] \notin Range(AllRows))
        => ih_result.exc = "KeyError"

\* C14: loc_to_iloc raises the depth error whenever the key is a plain tuple whose
\* length is not the depth, or another hierarchy of a different depth.
C14_DepthMismatchRaises ==
    (/\ pc = "ready"
     /\ ih_result.op = "loc_to_iloc"
     /\ \/ ih_result.arg.kind = "tuple" /\ Len(ih_result.arg.v) # Len(ih._indices)
        \/ ih_result.arg.kind = "ih" /\ Len(ih_result.arg.v._indices) # Len(ih._indices))
        => ih_result.exc \in {"ErrorInitIndex", "RuntimeError"}

\* C16: loc_to_iloc with another hierarchy K of the same depth returns exactly the
\* positions whose composite label is a label of K when every label of K's sub-indices
\* is in the sub-index of the same depth, and raises KeyError otherwise.
C16_HierarchyKeySelectsCommonRows ==
    (/\ pc = "ready"
     /\ ih_result.op = "loc_to_iloc"
     /\ ih_result.arg.kind = "ih"
     /\ Len(ih_result.arg.v._indices) = Len(ih._indices))
        => IF \A d \in DOMAIN ih._indices :
                  Range(ih_result.arg.v._indices[d]._labels)
                      \subseteq Range(ih._indices[d]._labels_mutable)
                          \cup Range(ih._indices[d]._labels)
           THEN /\ ih_result.exc = "None"
                /\ ih_result.val.array
                /\ IsUnique(ih_result.val.v)
                /\ Range(ih_result.val.v) =
                       {p - 1 : p \in {q \in DOMAIN AllRows :
                                          AllRows[q] \in Range(Blocks_values(ih_result.arg.v._blocks))}}
           ELSE ih_result.exc = "KeyError"

-----------------------------------------------------------------------------
\* Selection with partial hierarchical selectors (HLoc) on hierarchies built by
\* from_labels and by IndexHierarchy(indices, indexers).

\* The components of a selector for a hierarchy of n rows: the wildcard, a label, a list
\* of labels, label slices with and without ends and with a step, and a mask.
SelectorParts(n) ==
    {NULL_SLICE, KeyLabel(0), KeyLabel(1), KeyList(<<1, 0>>),
     KeySlice(<<0>>, <<>>, <<>>), KeySlice(<<>>, <<0>>, <<>>), KeySlice(<<0>>, <<1>>, <<>>),
     KeySlice(<<0>>, <<1>>, <<2>>), KeyMask([p \in 1..n |-> p % 2 = 1])}

\* Selectors of at most as many components as the depth.
Selectors(n) == {KeyHLoc(v) : v \in UNION {[1..k -> SelectorParts(n)] : k \in 0..2}}

NextSelect ==
    \/ \E rows \in SeqsUpTo(HRows, MaxHInit) : HFromLabels(rows, TRUE)
    \/ \E indexers \in HIndexers : HInit(indexers, TRUE)
    \/ \E key \in Selectors(Blocks__len__(ih._blocks)) : HLocToIloc(key, 0)

SpecSelect == InitHierarchy /\ [][NextSelect]_vars

\* The positions a selector asks for: those whose label at every meaningful depth is the
\* scalar, in the list, within the inclusive slice over the positions of the sub-index,
\* or set in the mask.
SelectorMatches(h, key, p) ==
    \A d \in DOMAIN key :
        LET part == key[d]
            labels == h._indices[d]._labels
            at == h._indexers[d][p]
            first == IF part.start = <<>> THEN 0 ELSE FirstPos(labels, part.start[1])
            last == IF part.stop = <<>> THEN Len(labels) - 1 ELSE FirstPos(labels, part.stop[1])
            step == IF part.step = <<>> THEN 1 ELSE part.step[1]
        IN CASE part.kind = "label" -> labels[at + 1] = part.label
             [] part.kind = "list" -> labels[at + 1] \in Range(part.list)
             [] part.kind = "mask" -> part.mask[p]
             [] part.kind = "slice" ->
                    at >= first /\ at <= last /\ (at - first) % step = 0

\* C15: a partial hierarchical selector selects exactly the positions that match at every
\* meaningful depth; a selector with one meaningful depth gives what the 2D mask, ANDed
\* across the depths, gives; a selector of wildcards only selects every position.
C15_SelectorSelectsMatches ==
    (/\ pc = "ready"
     /\ ih_result.op = "loc_to_iloc"
     /\ ih_result.arg.kind = "hloc"
     /\ \A d \in DOMAIN ih_result.arg.v :
            LET part == ih_result.arg.v[d]
                labels == Range(ih._indices[d]._labels)
            IN /\ part.kind = "label" => part.label \in labels
               /\ Range(part.list) \cup Range(part.start) \cup Range(part.stop)
                      \subseteq labels)
        => LET key == ih_result.arg.v
               n == Blocks__len__(ih._blocks)
               selected == IF ih_result.val.array THEN ih_result.val.v
                           ELSE <<ih_result.val.v>>
               general == IH_fill_mask_2d(ih, key, 1,
                              [d \in DOMAIN ih._indices |-> [p \in 1..n |-> TRUE]])
           IN /\ ih_result.exc = "None"
              /\ selected = PositionsOfMask([p \in 1..n |-> SelectorMatches(ih, key, p)])
              /\ selected = PositionsOfMask([p \in 1..n |->
                                \A d \in DOMAIN general.val : general.val[d][p]])

\* ---------------------------------------------------------------------------------
\* Copies of an index, and the set operations of an index with itself

\* Index.dtype: the dtype of the labels array, here the kind of its elements; an array of
\* no labels that was built without a dtype has numpy's default.
Index_dtype(self) ==
    LET labels == Recached(self)._labels
    IN IF labels = <<>> THEN "float64"
       ELSE IF \A i \in DOMAIN labels : IsInt(labels[i]) THEN "int64"
       ELSE IF \A i \in DOMAIN labels : ~IsInt(labels[i]) THEN "str"
       ELSE "object"

\* A variant in which the new index always takes the map of the one it is built from.
MutMapAlwaysShared(labels, static) == TRUE

\* Index.__init__ with labels an Index: "self._map = labels._map" is done only when both
\* are immutable; otherwise a map of its own is built from the labels array.
Index_shares_map(labels, static) == labels.STATIC /\ static

\* mutable_immutable_index_filter returns the index it is given, not a new instance, only
\* for an immutable target and an immutable index.
index_filter_same(target_static, i) == target_static /\ i.STATIC

\* cls(labels), labels an Index: the source after the call (it is recached), the new index,
\* and what the two share.
Index__init__copy(labels, static) ==
    [exc |-> "None", obj |-> Recached(labels), val |-> Index_from_index(labels, static),
     same |-> FALSE, dtype |-> "none", map |-> Index_shares_map(labels, static)]

\* Index.__copy__
Index__copy__(self) == Index__init__copy(Recached(self), self.STATIC)

\* Index._ufunc_set with other the index itself: equals() is true by identity.
Index_ufunc_set(self, func) ==
    LET src == Recached(self)
    IN IF func \in {"union", "intersection"}
       THEN IF src.STATIC
            THEN [exc |-> "None", obj |-> src, val |-> src, same |-> TRUE,
                  dtype |-> "none", map |-> TRUE]
            ELSE Index__copy__(src)
       ELSE [exc |-> "None", obj |-> src,
             val |-> Index__init__(<<>>, FALSE, src.STATIC, FALSE).obj,
             same |-> FALSE, dtype |-> Index_dtype(src), map |-> FALSE]

\* IndexHierarchy.__init__ with indices an IndexHierarchy: the copying constructor.
IH__init__copy(indices, static, junk) ==
    Let(IH_recached(indices, junk),
        LAMBDA r :
            IF r.exc # "None"
            THEN [exc |-> r.exc, obj |-> r.obj, val |-> NullIH, same |-> FALSE,
                  indices |-> <<>>]
            ELSE [exc |-> "None",
                  obj |-> [r.obj EXCEPT !._indices = [d \in DOMAIN @ |-> Recached(@[d])]],
                  val |-> [STATIC |-> static,
                           _indices |-> [d \in DOMAIN r.obj._indices |->
                               mutable_immutable_index_filter(static, r.obj._indices[d])],
                           _indexers |-> r.obj._indexers,
                           _blocks |-> r.obj._blocks,
                           _recache |-> FALSE,
                           _pending_extensions |-> NoPending,
                           indexers_class |-> "list"],
                  same |-> FALSE,
                  indices |-> [d \in DOMAIN r.obj._indices |->
                                  index_filter_same(static, r.obj._indices[d])]])

\* IndexHierarchy.__copy__, and IndexHierarchyGO.__copy__ which recaches first and copies
\* each sub-index.
IH__copy__(self, junk) ==
    IF self.STATIC
    THEN [exc |-> "None", obj |-> self,
          val |-> IH__init__(self._indices, self._indexers, TRUE, self._blocks, TRUE).obj,
          same |-> FALSE,
          indices |-> [d \in DOMAIN self._indices |->
                          index_filter_same(TRUE, self._indices[d])]]
    ELSE Let(IH_recached(self, junk),
             LAMBDA r :
                 IF r.exc # "None"
                 THEN [exc |-> r.exc, obj |-> r.obj, val |-> NullIH, same |-> FALSE,
                       indices |-> <<>>]
                 ELSE Let([d \in DOMAIN r.obj._indices |-> Index__copy__(r.obj._indices[d])],
                          LAMBDA copies :
                     [exc |-> "None",
                      obj |-> [r.obj EXCEPT !._indices = [d \in DOMAIN @ |-> copies[d].obj]],
                      val |-> IH__init__([d \in DOMAIN copies |-> copies[d].val],
                                         r.obj._indexers, FALSE, r.obj._blocks, TRUE).obj,
                      same |-> FALSE,
                      indices |-> [d \in DOMAIN copies |->
                                      index_filter_same(FALSE, copies[d].val)]]))

\* IndexHierarchy._from_empty(EMPTY_TUPLE, depth_reference=depth)
IH_from_empty(depth_reference, static) ==
    IF depth_reference = 1
    THEN [exc |-> "ErrorInitIndex", msg |-> <<>>, obj |-> NullIH]
    ELSE IH__init__([d \in 1..depth_reference |-> Index__init__(<<>>, FALSE, static, FALSE).obj],
                    [d \in 1..depth_reference |-> PositionsAllocator_get(0)],
                    static, <<>>, FALSE)

\* IndexHierarchy._ufunc_set with other the hierarchy itself: equals() is true by
\* identity, before any recache.
IH_ufunc_set(self, func, junk) ==
    IF func \in {"union", "intersection"}
    THEN IF self.STATIC
         THEN [exc |-> "None", obj |-> self, val |-> self, same |-> TRUE,
               indices |-> [d \in DOMAIN self._indices |-> TRUE]]
         ELSE IH__copy__(self, junk)
    ELSE LET r == IH_from_empty(Len(self._indices), self.STATIC)
         IN [exc |-> r.exc, obj |-> self, val |-> r.obj, same |-> FALSE,
             indices |-> [d \in DOMAIN self._indices |-> FALSE]]

\* cls(index), index.copy(), index.union(index), index.intersection(index) or
\* index.difference(index); static is the class called for "init".
MakeTwin(how, static) ==
    /\ pc = "ready"
    /\ ih_rows.ctor = "none"
    /\ twin.kind = "none"
    /\ LET r == CASE how = "init" -> Index__init__copy(index, static)
                  [] how = "copy" -> Index__copy__(index)
                  [] OTHER -> Index_ufunc_set(index, how)
       IN /\ index' = r.obj
          /\ result' = [op |-> how, arg |-> static, exc |-> r.exc, val |-> 0]
          /\ twin' = [kind |-> "index", how |-> how, same |-> r.same, dtype |-> r.dtype,
                      index |-> r.val, ih |-> NullIH,
                      shares |-> [map |-> r.map, indices |-> <<>>]]
    /\ UNCHANGED <<pc, history, levels, product, ih, ih_result, ih_rows>>

\* append(value) on the second index
TwinAppend(value) ==
    /\ twin.kind = "index"
    /\ ~twin.index.STATIC
    /\ Len(twin.index._labels_mutable) < MaxLen
    /\ LET r == IndexGO_append(twin.index, value)
       IN /\ twin' = [twin EXCEPT !.index = r.obj]
          /\ index' = SharedIndex(twin.index, r.obj, index, twin)
          /\ result' = [op |-> "twin_append", arg |-> value, exc |-> r.exc, val |-> 0]
    /\ UNCHANGED <<pc, history, levels, product, ih, ih_result, ih_rows>>

\* index._index_iloc_map(second) or second._index_iloc_map(index), between indices whose
\* labels are all integers or all strings
IndexIlocMap(swap) ==
    /\ twin.kind = "index"
    /\ LET labels == Recached(index)._labels \o Recached(twin.index)._labels
       IN \/ \A i \in DOMAIN labels : IsInt(labels[i])
          \/ \A i \in DOMAIN labels : ~IsInt(labels[i])
    /\ LET self == IF swap THEN twin.index ELSE index
           other == IF swap THEN index ELSE twin.index
           r == Index_index_iloc_map(self, other)
       IN result' = [op |-> "index_iloc_map", arg |-> swap, exc |-> r.exc,
                     val |-> [val |-> r.val, key |-> r.key]]
    /\ index' = Recached(index)
    /\ twin' = [twin EXCEPT !.index = IF twin.same THEN Recached(index) ELSE Recached(@)]
    /\ UNCHANGED <<pc, history, levels, product, ih, ih_result, ih_rows>>

\* cls(ih), ih.copy(), ih.union(ih), ih.intersection(ih) or ih.difference(ih)
HMakeTwin(how, static) ==
    /\ pc = "ready"
    /\ ih_rows.ctor # "none"
    /\ twin.kind = "none"
    /\ LET r == CASE how = "init" -> IH__init__copy(ih, static, 0)
                  [] how = "copy" -> IH__copy__(ih, 0)
                  [] OTHER -> IH_ufunc_set(ih, how, 0)
       IN /\ ih' = r.obj
          /\ ih_result' = [op |-> how, arg |-> static, exc |-> r.exc, val |-> <<>>]
          /\ twin' = IF r.exc # "None" THEN twin
                     ELSE [kind |-> "ih", how |-> how, same |-> r.same, dtype |-> "none",
                           index |-> NullIndex, ih |-> r.val,
                           shares |-> [map |-> FALSE, indices |-> r.indices]]
    /\ UNCHANGED <<pc, index, result, history, levels, product, ih_rows>>

\* append(row) on the second hierarchy; an entry of the pending queue of the first that
\* is the second hierarchy is that object, and so is seen as appended to
HTwinAppend(row) ==
    /\ twin.kind = "ih"
    /\ ~twin.ih.STATIC
    /\ IH__len__(twin.ih) < MaxHRows
    /\ LET r == IHGO_append(twin.ih, row)
       IN /\ twin' = [twin EXCEPT !.ih = r.obj]
          /\ ih' = [SharedHierarchy(r.obj, ih, twin) EXCEPT
                       !._pending_extensions.items =
                           [i \in DOMAIN @ |->
                               IF twin.how = "extend" /\ @[i] = PendingExtension(twin.ih)
                               THEN PendingExtension(r.obj) ELSE @[i]]]
          /\ ih_result' = [op |-> "twin_append", arg |-> row, exc |-> r.exc, val |-> <<>>]
    /\ UNCHANGED <<pc, index, result, history, levels, product, ih_rows>>

\* The labels of the flat indices: integers and one string.
MaxTwinLabel == 1

TwinLabels == (0..MaxTwinLabel) \cup {StrBase}

NextTwin ==
    \/ \E labels \in UniqueSeqsUpTo(TwinLabels, MaxInitLen), loc_is_iloc, static \in BOOLEAN :
           Construct(labels, loc_is_iloc, static, FALSE)
    \/ \E value \in TwinLabels : ih_rows.ctor = "none" /\ Append_(value)
    \/ \E static \in BOOLEAN : MakeTwin("init", static)
    \/ \E how \in {"copy", "union", "intersection", "difference"} : MakeTwin(how, FALSE)
    \/ \E value \in TwinLabels : TwinAppend(value)
    \/ \E swap \in BOOLEAN : IndexIlocMap(swap)
    \/ \E rows \in SeqsUpTo(HRows, 1), static \in BOOLEAN : HFromLabels(rows, static)
    \/ \E row \in HRows : ih_rows.ctor # "none" /\ HAppend(row)
    \/ \E static \in BOOLEAN : HMakeTwin("init", static)
    \/ \E how \in {"copy", "union", "intersection", "difference"} : HMakeTwin(how, FALSE)
    \/ \E row \in HRows : HTwinAppend(row)

SpecTwin == InitHierarchy /\ [][NextTwin]_vars

\* C17: for every index A, flat or hierarchical, Clean or Dirty, A.union(A) and
\* A.intersection(A) return A's labels in A's order (A itself when A is immutable, a new
\* index when it is append-only), and A.difference(A) returns an index of no labels: of
\* A's dtype when A is flat, of A's depth when it is a hierarchy.
C17_SetOperationsWithSelf ==
    /\ (twin.kind # "ih" /\ result.op \in {"union", "intersection", "difference"}) =>
           /\ result.exc = "None"
           /\ twin.how = result.op
           /\ result.op \in {"union", "intersection"} =>
                  /\ Index_values(twin.index).val = AllLabels
                  /\ twin.same = index.STATIC
                  /\ twin.index.STATIC = index.STATIC
           /\ result.op = "difference" =>
                  /\ Index_values(twin.index).val = <<>>
                  /\ twin.dtype = Index_dtype(index)
                  /\ twin.index.STATIC = index.STATIC
    /\ ih_result.op \in {"union", "intersection", "difference"} =>
           /\ ih_result.exc = "None"
           /\ twin.how = ih_result.op
           /\ ih_result.op \in {"union", "intersection"} =>
                  /\ IH_values(twin.ih, 0).exc = "None"
                  /\ IH_values(twin.ih, 0).val = AllRows
                  /\ twin.same = ih.STATIC
                  /\ twin.ih.STATIC = ih.STATIC
           /\ ih_result.op = "difference" =>
                  /\ IH_values(twin.ih, 0).val = <<>>
                  /\ Len(twin.ih._indices) = Len(ih._indices)
                  /\ twin.ih.STATIC = ih.STATIC

\* C18: S._index_iloc_map(O), for flat indices S and O whose labels are all integers or
\* all strings: when every label of S is a label of O it returns one position per label
\* of S, and the label of O at the i-th of them is the i-th label of S (no positions for
\* an S of no labels); otherwise it raises KeyError with the first label of
\* S.difference(O), a label of S that O does not have.
C18_IlocMapGivesPositionsInOther ==
    result.op = "index_iloc_map" =>
        LET S == IF result.arg THEN twin.index._labels ELSE index._labels
            O == IF result.arg THEN index._labels ELSE twin.index._labels
            r == result.val.val
        IN IF Range(S) \subseteq Range(O)
           THEN /\ result.exc = "None"
                /\ Len(r) = Len(S)
                /\ \A i \in DOMAIN S : ArrayGetitem(O, r[i]) = [exc |-> "None", val |-> S[i]]
           ELSE /\ result.exc = "KeyError"
                /\ result.val.key \in Range(S) \ Range(O)
                /\ result.val.key = setdiff1d(S, O)[1]

\* A map was asked of an index whose labels are not in sorted order, into one that has
\* them in another order.
C18_Witness ==
    /\ result.op = "index_iloc_map"
    /\ result.exc = "None"
    /\ Len(result.val.val) >= 2
    /\ result.val.val # PositionsAllocator_get(Len(result.val.val))
    /\ index._labels # twin.index._labels
    /\ \E i \in 1..(Len(result.val.val) - 1) : result.val.val[i] > result.val.val[i + 1]

\* C19: an append to an append-only index made from another by the copying constructor,
\* by copy() or by union or intersection of the other with itself leaves what is read
\* through the other (its labels, its length, the position of every label) as it was, and
\* an append to the other leaves what is read through the index made from it as it was;
\* for flat indices and for hierarchies.
C19_AppendsStayPrivate ==
    [][LET ObservedIndex(i) ==
               [labels |-> Index_values(i).val,
                len |-> Index__len__(i).val,
                map |-> [k \in TwinLabels |->
                            [exc |-> Index_loc_to_iloc(i, k).exc,
                             val |-> Index_loc_to_iloc(i, k).val]]]
           ObservedHierarchy(h) ==
               [len |-> IH__len__(h),
                values |-> [exc |-> IH_values(h, 0).exc, val |-> IH_values(h, 0).val],
                levels |-> [d \in DOMAIN h._indices |-> ObservedIndex(h._indices[d])]]
       IN /\ (twin.kind = "index" /\ result'.op = "twin_append") =>
                 ObservedIndex(index') = ObservedIndex(index)
          /\ (twin.kind = "index" /\ result'.op = "append") =>
                 ObservedIndex(twin'.index) = ObservedIndex(twin.index)
          /\ (twin.kind = "ih" /\ ih_result'.op = "twin_append") =>
                 ObservedHierarchy(ih') = ObservedHierarchy(ih)
          /\ (twin.kind = "ih" /\ ih_result'.op = "append") =>
                 ObservedHierarchy(twin'.ih) = ObservedHierarchy(twin.ih)]_vars

\* An append-only copy of an append-only index with a map has taken a label, after the
\* source had taken another one.
C19_Witness ==
    /\ twin.kind = "index"
    /\ twin.how \in {"init", "copy", "union", "intersection"}
    /\ ~index.STATIC /\ ~index._map.none
    /\ result.op = "twin_append"
    /\ result.exc = "None"
    /\ history.appended # <<>>
    /\ result.arg \notin Range(Index_values(index).val)
    /\ \E k \in Range(AllLabels) : k \notin Range(twin.index._labels_mutable)

\* C20: on a flat index of n labels that has no map (positions are labels),
\* loc_to_iloc(k) returns k when k is an integer with 0 <= k < n and raises KeyError for
\* every other integer k, negative or not below n: it succeeds exactly when "k in index"
\* is true.
C20_LocIsIlocLookupIffContained ==
    (pc = "ready" /\ result.op = "loc_to_iloc" /\ index._map.none) =>
        LET k == result.arg
            n == Len(AllLabels)
        IN /\ (result.exc = "None") <=> Index__contains__(index, k).val
           /\ (IsInt(k) /\ 0 <= k /\ k < n) => (result.exc = "None" /\ result.val = k)
           /\ (IsInt(k) /\ (k < 0 \/ k >= n)) => result.exc = "KeyError"

\* ---------------------------------------------------------------------------------
\* Construction with a continuation token, and structural edits

\* CONTINUATION_TOKEN_INACTIVE: the default of continuation_token, no label.
CONTINUATION_TOKEN_INACTIVE == -1

\* A variant that gives a token in a later row the sub-position of the token itself.
RECURSIVE MutTokenIsOrdinaryLabel(_, _, _, _)
MutTokenIsOrdinaryLabel(vals, continuation_token, hash_map, indexer) ==
    IF vals = <<>> THEN [hash_map |-> hash_map, indexer |-> indexer]
    ELSE IF vals[1] \notin Range(hash_map)
    THEN MutTokenIsOrdinaryLabel(Tail(vals), continuation_token, Append(hash_map, vals[1]),
                                 Append(indexer, Len(hash_map)))
    ELSE MutTokenIsOrdinaryLabel(Tail(vals), continuation_token, hash_map,
                                 Append(indexer, FirstPos(hash_map, vals[1])))

\* The loop of from_labels for one depth: vals are the components of that depth in the
\* rows not yet read, hash_map the labels met so far (each at its sub-position), indexer
\* the sub-positions given to the rows read; prev_row is empty while indexer is.
RECURSIVE IH_from_labels_depth(_, _, _, _)
IH_from_labels_depth(vals, continuation_token, hash_map, indexer) ==
    IF vals = <<>> THEN [hash_map |-> hash_map, indexer |-> indexer]
    ELSE IF continuation_token # CONTINUATION_TOKEN_INACTIVE /\ vals[1] = continuation_token
    THEN IF indexer # <<>>
         THEN IH_from_labels_depth(Tail(vals), continuation_token, hash_map,
                                   Append(indexer, indexer[Len(indexer)]))
         ELSE IH_from_labels_depth(Tail(vals), continuation_token, <<vals[1]>>, <<0>>)
    ELSE IF vals[1] \notin Range(hash_map)
    THEN IH_from_labels_depth(Tail(vals), continuation_token, Append(hash_map, vals[1]),
                              Append(indexer, Len(hash_map)))
    ELSE IH_from_labels_depth(Tail(vals), continuation_token, hash_map,
                              Append(indexer, FirstPos(hash_map, vals[1])))

\* IndexHierarchy.from_labels(labels, continuation_token=continuation_token)
IH_from_labels_continuation(labels, static, continuation_token) ==
    IF labels = <<>>
    THEN [exc |-> "ErrorInitIndex", msg |-> <<>>, obj |-> NullIH]
    ELSE LET depth == Len(labels[1])
         IN IF depth = 1 \/ \E r \in DOMAIN labels : Len(labels[r]) # depth
            THEN [exc |-> "ErrorInitIndex", msg |-> <<>>, obj |-> NullIH]
            ELSE Let([d \in 1..depth |->
                         IH_from_labels_depth([r \in DOMAIN labels |-> labels[r][d]],
                                              continuation_token, <<>>, <<>>)],
                     LAMBDA built :
                         IH__init__([d \in 1..depth |->
                                        Index__init__(built[d].hash_map, FALSE, static, FALSE).obj],
                                    [d \in 1..depth |-> built[d].indexer],
                                    static, <<>>, FALSE))

\* IndexHierarchy.from_labels(rows, continuation_token=token); the rows are kept as
\* given, tokens included.
HFromLabelsToken(rows, static, continuation_token) ==
    /\ pc = "new"
    /\ LET r == IH_from_labels_continuation(rows, static, continuation_token)
       IN /\ pc' = IF r.exc = "None" THEN "ready" ELSE "failed"
          /\ ih' = r.obj
          /\ ih_result' = [op |-> "from_labels", arg |-> continuation_token, exc |-> r.exc,
                           val |-> r.msg]
          /\ ih_rows' = [ctor |-> "from_labels_token",
                         init |-> IF r.exc = "None" THEN rows ELSE <<>>,
                         added |-> <<>>, extended |-> FALSE]
    /\ UNCHANGED <<index, result, history, levels, product, twin>>

\* IndexHierarchy.level_drop(count): the hierarchy after the call, and the index or the
\* hierarchy returned.  self._blocks[:count] and self._blocks.iloc[:, count:] select
\* columns of the blocks.
IH_level_drop(self, count, junk) ==
    Let(IH_recached(self, junk),
        LAMBDA r :
            LET depth == Len(r.obj._indices)
                from == IF count > 0 THEN count + 1 ELSE 1
                to == IF count > 0 THEN depth ELSE depth + count
                flat(d) == Index__init__(r.obj._blocks[d], FALSE, r.obj.STATIC, FALSE)
                nested == IH__init__(SubSeq(r.obj._indices, from, to),
                                     SubSeq(r.obj._indexers, from, to), r.obj.STATIC,
                                     SubSeq(r.obj._blocks, from, to), TRUE)
            IN IF r.exc # "None"
               THEN [exc |-> r.exc, obj |-> r.obj, kind |-> "none",
                     index |-> NullIndex, ih |-> NullIH]
               ELSE IF count = 0
               THEN [exc |-> "NotImplementedError", obj |-> r.obj, kind |-> "none",
                     index |-> NullIndex, ih |-> NullIH]
               ELSE IF count <= 1 - depth \/ count >= depth - 1
               THEN [exc |-> flat(IF count > 0 THEN depth ELSE 1).exc, obj |-> r.obj,
                     kind |-> "index",
                     index |-> flat(IF count > 0 THEN depth ELSE 1).obj, ih |-> NullIH]
               ELSE [exc |-> nested.exc, obj |-> r.obj, kind |-> "ih",
                     index |-> NullIndex, ih |-> nested.obj])

\* ih.level_drop(count); what it returns is kept as the second index.
HLevelDrop(count) ==
    /\ pc = "ready"
    /\ twin.kind = "none"
    /\ LET r == IH_level_drop(ih, count, 0)
       IN /\ ih' = r.obj
          /\ ih_result' = [op |-> "level_drop", arg |-> count, exc |-> r.exc, val |-> <<>>]
          /\ twin' = IF r.exc # "None" THEN twin
                     ELSE [NoTwin EXCEPT !.kind = r.kind, !.how = "level_drop",
                                         !.index = r.index, !.ih = r.ih]
    /\ UNCHANGED <<pc, index, result, history, levels, product, ih_rows>>

\* Index.level_add(level): the index after the call and the hierarchy returned, whose
\* indexers are the rows of one two-dimensional array.
Index_level_add(self, level) ==
    LET src == Recached(self)
        size == Len(src._labels)
        r == IH__init__(<<Index__init__(<<level>>, FALSE, src.STATIC, FALSE).obj,
                          mutable_immutable_index_filter(TRUE, src)>>,
                        <<[p \in 1..size |-> 0], PositionsAllocator_get(size)>>,
                        src.STATIC, <<>>, FALSE)
    IN [exc |-> r.exc, obj |-> src,
        val |-> IF r.exc = "None" THEN [r.obj EXCEPT !.indexers_class = "ndarray"]
                ELSE NullIH]

\* IndexHierarchy.level_add(level): the hierarchy after the call and the one returned.
IH_level_add(self, level, junk) ==
    Let(IH_recached(self, junk),
        LAMBDA r :
            IF r.exc # "None" THEN [exc |-> r.exc, obj |-> r.obj, val |-> NullIH]
            ELSE LET size == Blocks__len__(r.obj._blocks)
                     copies == [d \in DOMAIN r.obj._indices |->
                                   IF r.obj.STATIC
                                   THEN [obj |-> r.obj._indices[d], val |-> r.obj._indices[d]]
                                   ELSE Index__copy__(r.obj._indices[d])]
                     made == IH__init__(
                         <<Index__init__(<<level>>, FALSE, r.obj.STATIC, FALSE).obj>>
                             \o [d \in DOMAIN copies |-> copies[d].val],
                         <<[p \in 1..size |-> 0]>> \o r.obj._indexers,
                         r.obj.STATIC,
                         <<[p \in 1..size |-> level]>> \o r.obj._blocks, TRUE)
                 IN [exc |-> made.exc,
                     obj |-> [r.obj EXCEPT !._indices = [d \in DOMAIN @ |-> copies[d].obj]],
                     val |-> made.obj])

\* index.level_add(level) on a flat index; the hierarchy returned is the one under test
\* from then on, its rows the labels of the index with level before each.
LevelAdd(level) ==
    /\ pc = "ready"
    /\ ih_rows.ctor = "none"
    /\ LET r == Index_level_add(index, level)
       IN /\ index' = r.obj
          /\ ih' = r.val
          /\ ih_result' = [op |-> "level_add", arg |-> level, exc |-> r.exc, val |-> <<>>]
          /\ ih_rows' = [ctor |-> "level_add",
                         init |-> [p \in DOMAIN AllLabels |-> <<level, AllLabels[p]>>],
                         added |-> <<>>, extended |-> FALSE]
    /\ UNCHANGED <<pc, result, history, levels, product, twin>>

\* ih.level_add(level); the hierarchy returned is the one under test from then on.
HLevelAdd(level) ==
    /\ pc = "ready"
    /\ ih_rows.ctor = "from_labels"
    /\ LET r == IH_level_add(ih, level, 0)
       IN /\ ih' = IF r.exc = "None" THEN r.val ELSE r.obj
          /\ ih_result' = [op |-> "level_add", arg |-> level, exc |-> r.exc, val |-> <<>>]
          /\ ih_rows' = IF r.exc # "None" THEN [ih_rows EXCEPT !.ctor = "level_add_failed"]
                        ELSE [ctor |-> "level_add",
                              init |-> [p \in DOMAIN AllRows |-> <<level>> \o AllRows[p]],
                              added |-> <<>>, extended |-> FALSE]
    /\ UNCHANGED <<pc, index, result, history, levels, product, twin>>

\* IndexHierarchy.relabel_at_depth(mapper, depth_level), mapper a mapping (a callable is
\* a mapping that has every label) and depth_level a sorted list of depths: the
\* hierarchy after the call and the one returned.
IH_relabel_at_depth(self, mapper, depth_level, junk) ==
    IF \E i \in DOMAIN depth_level : depth_level[i] < 0 \/ depth_level[i] >= Len(self._indices)
    THEN [exc |-> "ValueError", obj |-> self, val |-> NullIH]
    ELSE Let(IH_recached(self, junk),
             LAMBDA r :
                 IF r.exc # "None" THEN [exc |-> r.exc, obj |-> r.obj, val |-> NullIH]
                 ELSE LET get_new_label(label) ==
                              IF label \in DOMAIN mapper THEN mapper[label] ELSE label
                          index_at(d) == Recached(r.obj._indices[d])
                          relabelled(d) ==
                              [label_idx \in DOMAIN index_at(d)._labels |->
                                  get_new_label(index_at(d)._labels[label_idx])]
                          new_index(d) == Distinct(relabelled(d))
                          \* index_remap.get(i, i): the place in new_index of a label
                          \* met before, else the old place
                          index_remap_get(d, i) ==
                              IF relabelled(d)[i + 1] \in Range(SubSeq(relabelled(d), 1, i))
                              THEN FirstPos(new_index(d), relabelled(d)[i + 1])
                              ELSE i
                          targeted(d) == \E i \in DOMAIN depth_level : depth_level[i] = d - 1
                          made == IH__init__(
                              [d \in DOMAIN r.obj._indices |->
                                  IF targeted(d)
                                  THEN Index__init__(new_index(d), FALSE, r.obj.STATIC, FALSE).obj
                                  ELSE r.obj._indices[d]],
                              [d \in DOMAIN r.obj._indexers |->
                                  IF targeted(d)
                                  THEN [p \in DOMAIN r.obj._indexers[d] |->
                                           index_remap_get(d, r.obj._indexers[d][p])]
                                  ELSE r.obj._indexers[d]],
                              r.obj.STATIC, <<>>, FALSE)
                      IN [exc |-> made.exc,
                          obj |-> [r.obj EXCEPT
                                      !._indices = [d \in DOMAIN @ |->
                                                       IF targeted(d) THEN index_at(d) ELSE @[d]]],
                          val |-> made.obj])

\* ih.relabel_at_depth(mapper, depth_level); the hierarchy returned is kept as the
\* second one.
HRelabelAtDepth(mapper, depth_level) ==
    /\ pc = "ready"
    /\ twin.kind = "none"
    /\ LET r == IH_relabel_at_depth(ih, mapper, depth_level, 0)
       IN /\ ih' = r.obj
          /\ ih_result' = [op |-> "relabel_at_depth",
                           arg |-> [mapper |-> mapper, depth_level |-> depth_level],
                           exc |-> r.exc, val |-> <<>>]
          /\ twin' = IF r.exc # "None" THEN twin
                     ELSE [NoTwin EXCEPT !.kind = "ih", !.how = "relabel_at_depth",
                                         !.ih = r.val]
    /\ UNCHANGED <<pc, index, result, history, levels, product, ih_rows>>

\* The depth of the hierarchies that levels are dropped from.
MaxEditDepth == 3

MaxEditRows == 3

NextEdit ==
    \/ \E rows \in SeqsUpTo([1..2 -> {0, 1, StrBase}], MaxEditRows), static \in BOOLEAN,
          continuation_token \in {CONTINUATION_TOKEN_INACTIVE, 1, StrBase} :
           HFromLabelsToken(rows, static, continuation_token)
    \/ \E rows \in SeqsUpTo([1..MaxEditDepth -> HLabels], MaxHInit), static \in BOOLEAN :
           HFromLabels(rows, static)
    \/ \E row \in [1..MaxEditDepth -> HLabels] :
           ih_rows.ctor = "from_labels" /\ Len(ih._indices) = Len(row) /\ HAppend(row)
    \/ \E count \in (-MaxEditDepth)..MaxEditDepth :
           ih_rows.ctor = "from_labels" /\ count # 0 /\ HLevelDrop(count)
    \/ \E labels \in UniqueSeqsUpTo(HLabels, MaxHInit), loc_is_iloc \in BOOLEAN :
           Construct(labels, loc_is_iloc, FALSE, FALSE)
    \/ \E value \in HLabels : ih_rows.ctor = "none" /\ Append_(value)
    \/ \E level \in {0, StrBase} : LevelAdd(level)
    \/ \E level \in {0, StrBase} : ~ih.STATIC /\ HLevelAdd(level)
    \/ \E label \in HLabels :
           ih_rows.ctor = "level_add" /\ HAppend([d \in DOMAIN ih._indices |-> label])
    \/ ih_rows.ctor = "level_add" /\ HValues(0)
    \/ \E mapper \in UNION {[S -> {0, 1}] : S \in SUBSET {0, 1, StrBase}},
          depth_level \in {<<0>>, <<1>>, <<0, 1>>} :
           /\ ih_rows.ctor = "from_labels_token" /\ ih_result.op = "from_labels"
           /\ ih_result.arg = CONTINUATION_TOKEN_INACTIVE
           /\ HRelabelAtDepth(mapper, depth_level)

SpecEdit == InitHierarchy /\ [][NextEdit]_vars

\* C21: in from_labels with a continuation token, a component equal to the token in a
\* row after the first gets the sub-position of the component above it, whatever label
\* that is; a token in the first row is kept as a label, at sub-position 0 of its depth;
\* every other component gets the sub-position at which its label stands in the
\* sub-index, the one its first occurrence was given.
C21_TokenRepeatsPreviousRow ==
    (pc = "ready" /\ ih_rows.ctor = "from_labels_token" /\ ih_result.op = "from_labels"
        /\ ih_result.arg # CONTINUATION_TOKEN_INACTIVE) =>
        \A r \in DOMAIN ih_rows.init : \A d \in DOMAIN ih_rows.init[r] :
            LET val == ih_rows.init[r][d]
                at(q) == ih._indexers[d][q]
                labels == ih._indices[d]._labels
            IN IF val = ih_result.arg
               THEN IF r > 1 THEN at(r) = at(r - 1)
                    ELSE at(r) = 0 /\ labels[1] = val
               ELSE /\ ArrayGetitem(labels, at(r)) = [exc |-> "None", val |-> val]
                    /\ at(r) >= 0
                    /\ \A q \in 1..(r - 1) : ih_rows.init[q][d] = val => at(q) = at(r)
                    /\ IsUnique(labels)

\* A hierarchy was built from rows that have the token in the first row, and in a later
\* row below a label that is not the first of its depth.
C21_Witness ==
    /\ pc = "ready" /\ ih_rows.ctor = "from_labels_token" /\ ih_result.op = "from_labels"
    /\ ih_result.arg # CONTINUATION_TOKEN_INACTIVE
    /\ Len(ih_rows.init) = MaxEditRows
    /\ ih_rows.init[1][1] = ih_result.arg
    /\ ih_rows.init[3][2] = ih_result.arg
    /\ ih._indexers[2][3] = 1
    /\ ih_rows.init[2][1] # ih_result.arg

\* C22: on every hierarchy of depth k, level_drop(count) with |count| >= k - 1 returns a
\* flat index of the labels of the one depth that remains, the innermost for a positive
\* count and the outermost for a negative one; with 0 < |count| < k - 1 it returns a
\* hierarchy of depth k - |count| whose label at each position is the label of the
\* source without its count outermost or |count| innermost components.
C22_LevelDropRemovesDepths ==
    ih_result.op = "level_drop" =>
        LET k == Len(ih._indices)
            count == ih_result.arg
            size == IF count > 0 THEN count ELSE -count
        IN /\ ih_result.exc = "None"
           /\ IF size >= k - 1
              THEN /\ twin.kind = "index"
                   /\ Index_values(twin.index).val =
                          [p \in DOMAIN AllRows |-> AllRows[p][IF count > 0 THEN k ELSE 1]]
              ELSE /\ twin.kind = "ih"
                   /\ Len(twin.ih._indices) = k - size
                   /\ IH_values(twin.ih, 0).val =
                          [p \in DOMAIN AllRows |->
                              IF count > 0 THEN SubSeq(AllRows[p], count + 1, k)
                              ELSE SubSeq(AllRows[p], 1, k + count)]

\* C23: level_add(v) on an append-only index, flat or hierarchical, returns an
\* append-only hierarchy whose label at each position is v followed by the label the
\* source has there, the outer indexer all zero; after an append(row) on that hierarchy
\* a read gives those labels followed by row.
C23_LevelAddThenAppend ==
    /\ ih_result.op = "level_add" =>
           /\ ih_result.exc = "None"
           /\ ~ih.STATIC
           /\ IH_values(ih, 0).val = ih_rows.init
           /\ \A p \in DOMAIN ih._indexers[1] : ih._indexers[1][p] = 0
    /\ (ih_rows.ctor = "level_add" /\ ih_result.op = "values") =>
           /\ ih_result.exc = "None"
           /\ ih_result.val = AllRows

\* C24: on an append-only hierarchy every append or extend leaves the hierarchy Dirty
\* with the new entry at the tail of the pending queue; a read of the materialized state
\* made while Dirty, the rows pairwise distinct, recomputes before it answers and leaves
\* the hierarchy Clean with an empty queue; a read made while Clean recomputes nothing.
C24_ReadsRecomputeOnce ==
    [][LET queue == ih._pending_extensions.items
           queue_after == ih'._pending_extensions.items
           reads == {"values", "extract_iloc", "extract_iloc_int"}
       IN /\ (ih_result'.op \in {"append", "extend"} /\ ih_result'.exc = "None") =>
                 /\ ih'._recache
                 /\ Len(queue_after) = Len(queue) + 1
                 /\ SubSeq(queue_after, 1, Len(queue)) = queue
                 /\ LET entry == queue_after[Len(queue_after)]
                    IN IF ih_result'.op = "append"
                       THEN entry = PendingRow(ih_result'.arg)
                       ELSE ~entry.row /\ Blocks_values(entry.value._blocks) = ih_result'.arg
          /\ (/\ ih_result'.op \in reads /\ pc = "ready" /\ ih._recache
              /\ Range(AllRows) \subseteq HRows /\ IsUnique(AllRows)) =>
                 /\ ~ih'._recache
                 /\ queue_after = <<>>
                 /\ Blocks_values(ih'._blocks) = AllRows
          /\ (ih_result'.op \in reads /\ pc = "ready" /\ ~ih._recache) =>
                 /\ ~ih'._recache
                 /\ ih'._indexers = ih._indexers
                 /\ ih'._blocks = ih._blocks]_vars

\* C25: after appends and extends in any order on an append-only hierarchy, the rows
\* pairwise distinct, the labels a read gives are the labels held before the calls
\* followed by the appended rows and the rows of each extended hierarchy in call order.
C25_ReplayIsFirstInFirstOut ==
    (/\ ih_result.op = "values" /\ ~ih.STATIC /\ ih_rows.added # <<>>
     /\ Range(AllRows) \subseteq HRows /\ IsUnique(AllRows)) =>
        /\ ih_result.exc = "None"
        /\ ih_result.val = AllRows

\* C26: through every sequence of appends and reads on an append-only hierarchy len is
\* the number of rows at construction plus one for every append that returned, Dirty or
\* Clean; len and shape raise nothing, give that number, and leave the hierarchy as it was.
C26_LenCountsPendingRows ==
    [][/\ (pc' = "ready" /\ ~ih'.STATIC) =>
              IH__len__(ih') = Len(ih_rows'.init) + Len(ih_rows'.added)
       /\ (pc = "ready" /\ ~ih.STATIC /\ ih_result'.op \in {"len", "shape"}) =>
              /\ ih_result'.exc = "None"
              /\ ih_result'.val = IF ih_result'.op = "len" THEN Len(AllRows)
                                  ELSE <<Len(AllRows), Len(ih._indices)>>
              /\ ih' = ih]_vars

\* C27: a read that forces the recompute of an append-only hierarchy holding a repeated
\* row raises the duplicate-label error and rolls nothing back: the hierarchy stays
\* Dirty with the repeated row in its indexers and block and an empty pending queue,
\* len counts the row, and every later such read raises the same error.
C27_DuplicateStaysDirty ==
    [][(/\ ih_result'.op \in {"values", "extract_iloc", "extract_iloc_int"}
        /\ pc = "ready" /\ ih._recache
        /\ Range(AllRows) \subseteq HRows /\ ~IsUnique(AllRows)) =>
           /\ ih_result'.exc = "ErrorInitIndexNonUnique"
           /\ ih'._recache
           /\ ih'._pending_extensions.items = <<>>
           /\ Blocks_values(ih'._blocks) = AllRows
           /\ IH__len__(ih') = Len(AllRows)]_vars

-----------------------------------------------------------------------------
\* A hierarchy extended with a second one that is appended to afterwards.

\* ih.extend(other), other a hierarchy built from rows that stays at hand
HExtendOther(rows, static) ==
    /\ pc = "ready"
    /\ ~ih.STATIC
    /\ twin.kind = "none"
    /\ IH__len__(ih) + Len(rows) <= MaxHRows
    /\ LET other == IH_from_labels(rows, static)
           r == IHGO_extend(ih, other.obj)
       IN /\ other.exc = "None"
          /\ ih' = r.obj
          /\ ih_result' = [op |-> "extend", arg |-> rows, exc |-> r.exc, val |-> <<>>]
          /\ ih_rows' = [ih_rows EXCEPT !.added = @ \o rows, !.extended = TRUE]
          /\ twin' = [NoTwin EXCEPT !.kind = "ih", !.how = "extend", !.ih = other.obj]
    /\ UNCHANGED <<pc, index, result, history, levels, product>>

NextAlias ==
    \/ \E rows \in SeqsUpTo(HRows, MaxHInit) : HFromLabels(rows, FALSE)
    \/ \E rows \in SeqsUpTo(HRows, MaxHInit), static \in BOOLEAN : HExtendOther(rows, static)
    \/ \E row \in HRows : HAppend(row)
    \/ \E row \in HRows : HTwinAppend(row)
    \/ \E junk \in JunkValues : HValues(junk)
    \/ HLen

SpecAlias == InitHierarchy /\ [][NextAlias]_vars

\* C28: the rows extend(other) contributes are the rows other held at the call: when
\* other is append-only and is appended to after the call and before the next read of
\* the extended hierarchy, that read succeeds and gives the rows held before, the rows
\* appended and other's rows as of the call, in call order.
C28_ExtendTakesRowsAsOfCall ==
    (/\ ih_result.op = "values" /\ twin.how = "extend" /\ twin.ih._recache
     /\ IsUnique(AllRows)) =>
        /\ ih_result.exc = "None"
        /\ ih_result.val = AllRows

\* C29: relabel_at_depth(mapper, depth_level) returns a hierarchy of the same length
\* whose row at every position has, at each targeted depth, mapper's value for the
\* original component (the component itself when the mapping lacks it) and at the other
\* depths the original component; also when mapper sends two labels of a depth to one,
\* as long as the relabelled rows are pairwise distinct.
C29_RelabelAtDepthMapsComponents ==
    LET mapper == ih_result.arg.mapper
        depth_level == ih_result.arg.depth_level
        rows == Blocks_values(ih._blocks)
        relabelled == [p \in DOMAIN rows |->
                          [d \in DOMAIN rows[p] |->
                              IF (\E i \in DOMAIN depth_level : depth_level[i] = d - 1)
                                 /\ rows[p][d] \in DOMAIN mapper
                              THEN mapper[rows[p][d]] ELSE rows[p][d]]]
    IN (ih_result.op = "relabel_at_depth" /\ IsUnique(relabelled)) =>
           /\ ih_result.exc = "None"
           /\ IH_values(twin.ih, 0).val = relabelled

\* C30: an append(v) that an append-only index with no map and n labels accepts leaves
\* the index without a map exactly when v is the integer n, and else with a map over all
\* n + 1 labels; in every state of an append-only index either there is no map and the
\* labels are 0..len-1 in order, or there is a map and it gives each label its position.
C30_MapElidedIffLabelsArePositions ==
    [][/\ (/\ result'.op = "append" /\ result'.exc = "None"
           /\ pc = "ready" /\ index._map.none) =>
              /\ index'._map.none <=> result'.arg = index._positions_mutable_count
              /\ ~index'._map.none =>
                     Len(index'._map.keys) = index._positions_mutable_count + 1
       /\ (pc' = "ready" /\ ~index'.STATIC) =>
              IF index'._map.none
              THEN index'._labels_mutable = PositionsAllocator_get(Len(index'._labels_mutable))
              ELSE /\ Len(index'._map.keys) = Len(index'._labels_mutable)
                   /\ \A i \in DOMAIN index'._labels_mutable :
                          AutoMap_getitem(index'._map, index'._labels_mutable[i]) = i - 1]_vars

C30_Witness ==
    /\ result.op = "append" /\ result.exc = "None"
    /\ index._map.none
    /\ Len(history.appended) = 2
    /\ result.arg = Len(AllLabels) - 1

====
